---------------------------- MODULE Spec2Model ----------------------------
(***************************************************************************)
(* NumpyDeque: a bounded double-ended queue kept as a window [_i, _j) of a *)
(* padded numpy buffer _data.  The object is the record `self`; every      *)
(* method is an operator from a record to the record the method leaves     *)
(* behind, statement by statement, numpy's slice and index rules included. *)
(* An exception stops the method where it is raised: the fields keep what  *)
(* the statements before it assigned, `err` names the exception, and the   *)
(* run ends there (no caller in the repository catches one).               *)
(*                                                                         *)
(* Spec runs every method on deques with forced buffers of up to MaxBcap   *)
(* cells; SpecDrop runs the single-element methods on deques wide enough   *)
(* for drop to move either side; SpecSizing is the constructor's sizing    *)
(* step on its own, over the sizes where the buffer is computed;           *)
(* SpecCaught is Spec with a caller that catches every exception and goes  *)
(* on with the object as the failed call left it; SpecAll is Spec with     *)
(* sort() and reverse(); SpecPlacing is the constructor up to the anchor,  *)
(* over pads wider than the buffers of Spec allow.                         *)
(***************************************************************************)
EXTENDS Integers, Sequences, FiniteSets, TLC

\* ------------------------------------------------------------------ bounds
MaxBcap == 4        \* largest buffer constructed (_force_buffer_size)
MaxVal == 2         \* element values are 1..MaxVal
MaxLen == 3         \* longest sequence handed to putter / putterleft / array

Values == 1 .. MaxVal

\* np.empty leaves a cell unset; the cell reads as this mark until written.
Uninit == 0

RECURSIVE SeqsUpTo(_)
SeqsUpTo(n) ==
    IF n = 0 THEN {<<>>}
    ELSE LET shorter == SeqsUpTo(n - 1)
         IN shorter \cup {Append(q, v) : q \in {x \in shorter : Len(x) = n - 1}, v \in Values}

ValueSeqs == SeqsUpTo(MaxLen)

Reverse(q) == [k \in 1 .. Len(q) |-> q[Len(q) + 1 - k]]

\* ------------------------------------------------------- numpy primitives
\* A slice bound: negative counts from the end, then clamped to [0, n].
SliceBound(b, n) ==
    IF b < 0 THEN (IF b + n < 0 THEN 0 ELSE b + n)
    ELSE IF b > n THEN n ELSE b

\* The cells data[a:b] denotes, as first index (0-based) and one past the last.
SliceRange(a, b, n) ==
    LET lo == SliceBound(a, n)
        hi == SliceBound(b, n)
    IN [lo |-> lo, hi |-> IF hi < lo THEN lo ELSE hi]

\* data[a:b]
GetSlice(data, a, b) ==
    LET r == SliceRange(a, b, Len(data)) IN SubSeq(data, r.lo + 1, r.hi)

\* data[a:b] = rhs: equal lengths copy (through a temporary when they
\* overlap), a length-1 rhs is broadcast, anything else is a ValueError.
SetSlice(data, a, b, rhs) ==
    LET r == SliceRange(a, b, Len(data))
        n == r.hi - r.lo
    IN IF Len(rhs) = n
       THEN [ok |-> TRUE,
             data |-> [k \in 1 .. Len(data) |->
                         IF k > r.lo /\ k <= r.hi THEN rhs[k - r.lo] ELSE data[k]]]
       ELSE IF Len(rhs) = 1
       THEN [ok |-> TRUE,
             data |-> [k \in 1 .. Len(data) |->
                         IF k > r.lo /\ k <= r.hi THEN rhs[1] ELSE data[k]]]
       ELSE [ok |-> FALSE, data |-> data]

\* An integer index: negative counts from the end; outside is an IndexError.
ItemIndex(k, n) == IF k < 0 THEN k + n ELSE k
ItemOk(k, n) == ItemIndex(k, n) >= 0 /\ ItemIndex(k, n) < n

\* data[k]
GetItem(data, k) == data[ItemIndex(k, Len(data)) + 1]

\* data[k] = v
SetItem(data, k, v) ==
    IF ItemOk(k, Len(data))
    THEN [ok |-> TRUE, data |-> [data EXCEPT ![ItemIndex(k, Len(data)) + 1] = v]]
    ELSE [ok |-> FALSE, data |-> data]

\* self.deque = self._data[self._i : self._j]: a view, kept as the cells it spans.
View(ob) == [ob EXCEPT !.deque = SliceRange(ob.i, ob.j, ob.bcap)]

Raise(ob, e) == [ob EXCEPT !.err = e]

\* ------------------------------------------------------------ construction
Priorities == {"equal", "right", "left", "rightonly", "leftonly"}

\* priority[0] of the stripped, lower-cased string
FirstChar(priority) ==
    CASE priority = "equal" -> "e"
      [] priority = "right" -> "r"
      [] priority = "rightonly" -> "r"
      [] priority = "left" -> "l"
      [] priority = "leftonly" -> "l"
      [] priority \in {"e", "eo"} -> "e"
      [] priority \in {"r", "ro"} -> "r"
      [] priority \in {"l", "lo"} -> "l"
      [] priority = "invalid" -> "i"
      [] priority = "random" -> "r"
      [] OTHER -> "x"

\* "o" in priority
HasO(priority) == priority \in {"rightonly", "leftonly", "random", "ro", "lo", "eo"}

_PRIORITY_FLAG(p) ==
    CASE p = "e" -> "equal"
      [] p = "l" -> "left"
      [] p = "lo" -> "leftonly"
      [] p = "r" -> "right"
      [] p = "ro" -> "rightonly"
      [] OTHER -> "KeyError"

None == <<>>

Max(a, b) == IF a >= b THEN a ELSE b

\* Maximum size increase of the buffer beyond what was requested.
_MAX_AUTO_BUFFER == 2048

\* a | b on non-negative integers
RECURSIVE BitOr(_, _)
BitOr(a, b) ==
    IF a = 0 THEN b
    ELSE IF b = 0 THEN a
    ELSE (IF a % 2 = 1 \/ b % 2 = 1 THEN 1 ELSE 0) + 2 * BitOr(a \div 2, b \div 2)

\* x >> k on a non-negative integer below 2^31 (every integer of the model)
ShiftRight(x, k) == IF k >= 31 THEN 0 ELSE x \div (2 ^ k)

_next_power_of_2(x) ==
    IF x < 2 THEN 2
    ELSE LET x0 == x - 1
             x1 == BitOr(x0, ShiftRight(x0, 1))
             x2 == BitOr(x1, ShiftRight(x1, 2))
             x4 == BitOr(x2, ShiftRight(x2, 4))
             x8 == BitOr(x4, ShiftRight(x4, 8))
             x16 == BitOr(x8, ShiftRight(x8, 16))
             x32 == BitOr(x16, ShiftRight(x16, 32))
         IN x32 + 1

\* Mutant: the floor is tested once (an if, not a while).
GrowToFloor_once(buffer_padding, requested_buffer) ==
    IF buffer_padding - requested_buffer < 8
    THEN 2 * buffer_padding
    ELSE buffer_padding

\* while buffer_padding - requested_buffer < 8: buffer_padding <<= 1
RECURSIVE GrowToFloor(_, _)
GrowToFloor(buffer_padding, requested_buffer) ==
    IF buffer_padding - requested_buffer < 8
    THEN GrowToFloor(2 * buffer_padding, requested_buffer)
    ELSE buffer_padding

\* while buffer_padding - requested_buffer > _MAX_AUTO_BUFFER: buffer_padding -= 128
RECURSIVE ShrinkToCeiling(_, _)
ShrinkToCeiling(buffer_padding, requested_buffer) ==
    IF buffer_padding - requested_buffer > _MAX_AUTO_BUFFER
    THEN ShrinkToCeiling(buffer_padding - 128, requested_buffer)
    ELSE buffer_padding

\* Mutant: the hint is counted once, not for both ends.
_get_buffer_size_oneEnd(size, buffer_padding) ==
    IF buffer_padding = None
    THEN IF size < 4 THEN 32
         ELSE LET requested_buffer == 2 * size
                  p == _next_power_of_2(requested_buffer)
                  q == IF p = requested_buffer THEN 2 * p ELSE p
              IN ShrinkToCeiling(GrowToFloor(q, requested_buffer), requested_buffer)
    ELSE LET requested_buffer == buffer_padding[1] + size
         IN IF size < 4 /\ requested_buffer < 8 THEN 8
            ELSE ShrinkToCeiling(GrowToFloor(_next_power_of_2(requested_buffer),
                                             requested_buffer),
                                 requested_buffer)

\* _get_buffer_size(size, buffer_padding); buffer_padding is None or <<p>>
_get_buffer_size(size, buffer_padding) ==
    IF buffer_padding = None
    THEN IF size < 4 THEN 32
         ELSE LET requested_buffer == 2 * size
                  p == _next_power_of_2(requested_buffer)
                  q == IF p = requested_buffer THEN 2 * p ELSE p
              IN ShrinkToCeiling(GrowToFloor(q, requested_buffer), requested_buffer)
    ELSE LET requested_buffer == 2 * buffer_padding[1] + size
         IN IF size < 4 /\ requested_buffer < 8 THEN 8
            ELSE ShrinkToCeiling(GrowToFloor(_next_power_of_2(requested_buffer),
                                             requested_buffer),
                                 requested_buffer)

\* Mutant: leftonly anchors one cell beyond the left padding.
Anchor_leftonlyBeyond(pad, priority) ==
    LET p == FirstChar(priority)
        flag == IF HasO(priority) THEN
                    (CASE p = "r" -> "ro" [] p = "l" -> "lo" [] p = "e" -> "eo"
                       [] p = "i" -> "io" [] OTHER -> "xo")
                ELSE p
        left_pad == pad \div 2
    IN IF pad < 2 THEN [s |-> 0, priority |-> "ro", err |-> "none"]
       ELSE IF p = "e" THEN [s |-> left_pad, priority |-> flag, err |-> "none"]
       ELSE IF p = "r" THEN
            IF HasO(priority) THEN [s |-> 0, priority |-> flag, err |-> "none"]
            ELSE LET s0 == left_pad \div 2
                 IN [s |-> IF s0 = 0 /\ pad > 2 THEN 1 ELSE s0,
                     priority |-> flag, err |-> "none"]
       ELSE IF p = "l" THEN
            IF HasO(priority) THEN [s |-> pad + 1, priority |-> flag, err |-> "none"]
            ELSE LET s0 == (3 * pad) \div 4
                     s1 == IF s0 > pad THEN pad ELSE s0
                 IN [s |-> IF s1 = pad /\ pad > 2 THEN pad - 1 ELSE s1,
                     priority |-> flag, err |-> "none"]
       ELSE [s |-> 0, priority |-> flag, err |-> "ValueError"]

\* Mutant: mode left takes a quarter of the pad, as mode right does.
Anchor_leftAsRight(pad, priority) ==
    LET p == FirstChar(priority)
        flag == IF HasO(priority) THEN
                    (CASE p = "r" -> "ro" [] p = "l" -> "lo" [] p = "e" -> "eo"
                       [] p = "i" -> "io" [] OTHER -> "xo")
                ELSE p
        left_pad == pad \div 2
    IN IF pad < 2 THEN [s |-> 0, priority |-> "ro", err |-> "none"]
       ELSE IF p = "e" THEN [s |-> left_pad, priority |-> flag, err |-> "none"]
       ELSE IF p = "r" THEN
            IF HasO(priority) THEN [s |-> 0, priority |-> flag, err |-> "none"]
            ELSE LET s0 == left_pad \div 2
                 IN [s |-> IF s0 = 0 /\ pad > 2 THEN 1 ELSE s0,
                     priority |-> flag, err |-> "none"]
       ELSE IF p = "l" THEN
            IF HasO(priority) THEN [s |-> pad, priority |-> flag, err |-> "none"]
            ELSE LET s0 == left_pad \div 2
                     s1 == IF s0 > pad THEN pad ELSE s0
                 IN [s |-> IF s1 = pad /\ pad > 2 THEN pad - 1 ELSE s1,
                     priority |-> flag, err |-> "none"]
       ELSE [s |-> 0, priority |-> flag, err |-> "ValueError"]

\* Mutant: the anchor of mode right is not raised to 1.
Anchor_rightNotRaised(pad, priority) ==
    LET p == FirstChar(priority)
        flag == IF HasO(priority) THEN
                    (CASE p = "r" -> "ro" [] p = "l" -> "lo" [] p = "e" -> "eo"
                       [] p = "i" -> "io" [] OTHER -> "xo")
                ELSE p
        left_pad == pad \div 2
    IN IF pad < 2 THEN [s |-> 0, priority |-> "ro", err |-> "none"]
       ELSE IF p = "e" THEN [s |-> left_pad, priority |-> flag, err |-> "none"]
       ELSE IF p = "r" THEN
            IF HasO(priority) THEN [s |-> 0, priority |-> flag, err |-> "none"]
            ELSE [s |-> left_pad \div 2, priority |-> flag, err |-> "none"]
       ELSE IF p = "l" THEN
            IF HasO(priority) THEN [s |-> pad, priority |-> flag, err |-> "none"]
            ELSE LET s0 == (3 * pad) \div 4
                     s1 == IF s0 > pad THEN pad ELSE s0
                 IN [s |-> IF s1 = pad /\ pad > 2 THEN pad - 1 ELSE s1,
                     priority |-> flag, err |-> "none"]
       ELSE [s |-> 0, priority |-> flag, err |-> "ValueError"]

\* Mutant: the requested mode is kept when pad < 2.
Anchor_noOverride(pad, priority) ==
    LET p == FirstChar(priority)
        flag == IF HasO(priority) THEN
                    (CASE p = "r" -> "ro" [] p = "l" -> "lo" [] p = "e" -> "eo"
                       [] p = "i" -> "io" [] OTHER -> "xo")
                ELSE p
        left_pad == pad \div 2
    IN IF p = "e" THEN [s |-> left_pad, priority |-> flag, err |-> "none"]
       ELSE IF p = "r" THEN
            IF HasO(priority) THEN [s |-> 0, priority |-> flag, err |-> "none"]
            ELSE LET s0 == left_pad \div 2
                 IN [s |-> IF s0 = 0 /\ pad > 2 THEN 1 ELSE s0,
                     priority |-> flag, err |-> "none"]
       ELSE IF p = "l" THEN
            IF HasO(priority) THEN [s |-> pad, priority |-> flag, err |-> "none"]
            ELSE LET s0 == (3 * pad) \div 4
                     s1 == IF s0 > pad THEN pad ELSE s0
                 IN [s |-> IF s1 = pad /\ pad > 2 THEN pad - 1 ELSE s1,
                     priority |-> flag, err |-> "none"]
       ELSE [s |-> 0, priority |-> flag, err |-> "ValueError"]

\* Mutant: leftonly keeps one cell of padding on the right.
Anchor_leftonlyShort(pad, priority) ==
    LET p == FirstChar(priority)
        flag == IF HasO(priority) THEN
                    (CASE p = "r" -> "ro" [] p = "l" -> "lo" [] p = "e" -> "eo"
                       [] p = "i" -> "io" [] OTHER -> "xo")
                ELSE p
        left_pad == pad \div 2
    IN IF pad < 2 THEN [s |-> 0, priority |-> "ro", err |-> "none"]
       ELSE IF p = "e" THEN [s |-> left_pad, priority |-> flag, err |-> "none"]
       ELSE IF p = "r" THEN
            IF HasO(priority) THEN [s |-> 0, priority |-> flag, err |-> "none"]
            ELSE LET s0 == left_pad \div 2
                 IN [s |-> IF s0 = 0 /\ pad > 2 THEN 1 ELSE s0,
                     priority |-> flag, err |-> "none"]
       ELSE IF p = "l" THEN
            IF HasO(priority) THEN [s |-> pad - 1, priority |-> flag, err |-> "none"]
            ELSE LET s0 == (3 * pad) \div 4
                     s1 == IF s0 > pad THEN pad ELSE s0
                 IN [s |-> IF s1 = pad /\ pad > 2 THEN pad - 1 ELSE s1,
                     priority |-> flag, err |-> "none"]
       ELSE [s |-> 0, priority |-> flag, err |-> "ValueError"]

\* The anchor _s and the stored flag _priority, from pad and the string.
Anchor(pad, priority) ==
    LET p == FirstChar(priority)
        flag == IF HasO(priority) THEN
                    (CASE p = "r" -> "ro" [] p = "l" -> "lo" [] p = "e" -> "eo"
                       [] p = "i" -> "io" [] OTHER -> "xo")
                ELSE p
        left_pad == pad \div 2
    IN IF pad < 2 THEN [s |-> 0, priority |-> "ro", err |-> "none"]
       ELSE IF p = "e" THEN [s |-> left_pad, priority |-> flag, err |-> "none"]
       ELSE IF p = "r" THEN
            IF HasO(priority) THEN [s |-> 0, priority |-> flag, err |-> "none"]
            ELSE LET s0 == left_pad \div 2
                 IN [s |-> IF s0 = 0 /\ pad > 2 THEN 1 ELSE s0,
                     priority |-> flag, err |-> "none"]
       ELSE IF p = "l" THEN
            IF HasO(priority) THEN [s |-> pad, priority |-> flag, err |-> "none"]
            ELSE LET s0 == (3 * pad) \div 4
                     s1 == IF s0 > pad THEN pad ELSE s0
                 IN [s |-> IF s1 = pad /\ pad > 2 THEN pad - 1 ELSE s1,
                     priority |-> flag, err |-> "none"]
       ELSE [s |-> 0, priority |-> flag, err |-> "ValueError"]

\* Mutant: the fill is written from cell 0, not from the anchor.
Construct_fillFromZero(maxsize, fill, priority, force) ==
    LET qcap == IF maxsize < 1 THEN 0 ELSE maxsize
        bcap == Max(qcap, force)
        a == Anchor(bcap - qcap, priority)
        empty == [k \in 1 .. bcap |-> Uninit]
        j == IF fill = None THEN a.s ELSE a.s + qcap
        ob == [qcap |-> qcap, bcap |-> bcap, priority |-> a.priority, s |-> a.s,
               i |-> a.s, j |-> j,
               data |-> IF fill = None THEN empty
                        ELSE SetSlice(empty, 0, qcap, fill).data,
               deque |-> [lo |-> 0, hi |-> 0],
               err |-> a.err, ret |-> None, shift |-> "none"]
    IN IF a.err # "none" THEN [ob EXCEPT !.i = 0, !.j = 0, !.data = empty]
       ELSE View(ob)

\* __init__(maxsize, fill, priority=priority, _force_buffer_size=force)
Construct(maxsize, fill, priority, force) ==
    LET qcap == IF maxsize < 1 THEN 0 ELSE maxsize
        bcap == Max(qcap, force)
        a == Anchor(bcap - qcap, priority)
        empty == [k \in 1 .. bcap |-> Uninit]
        j == IF fill = None THEN a.s ELSE a.s + qcap
        ob == [qcap |-> qcap, bcap |-> bcap, priority |-> a.priority, s |-> a.s,
               i |-> a.s, j |-> j,
               data |-> IF fill = None THEN empty
                        ELSE SetSlice(empty, a.s, j, fill).data,
               deque |-> [lo |-> 0, hi |-> 0],
               err |-> a.err, ret |-> None, shift |-> "none"]
    IN IF a.err # "none" THEN [ob EXCEPT !.i = 0, !.j = 0, !.data = empty]
       ELSE View(ob)

\* NumpyDeque.array(object, maxsize, dtype, priority=priority,
\* _force_buffer_size=force) with the dtype given: object is not indexed.
ArrayOf(object, maxsize, priority, force) ==
    LET size == Len(object)
        qcap == IF maxsize = None THEN size ELSE Max(size, maxsize[1])
        ob == Construct(qcap, None, priority, force)
        j == ob.s + size
        w == SetSlice(ob.data, ob.s, j, object)
    IN IF ob.err # "none" THEN ob
       ELSE IF ~w.ok THEN Raise([ob EXCEPT !.j = j], "ValueError")
       ELSE View([ob EXCEPT !.j = j, !.data = w.data])

\* NumpyDeque.array(object, maxsize, priority=priority, _force_buffer_size=force)
\* for a list `object`: the dtype is read from object[0].
Array(object, maxsize, priority, force) ==
    LET size == Len(object)
        qcap == IF maxsize = None THEN size ELSE Max(size, maxsize[1])
        ob == Construct(qcap, None, priority, force)
    IN IF size = 0 THEN Raise([ob EXCEPT !.i = 0, !.j = 0, !.deque = [lo |-> 0, hi |-> 0]],
                             "IndexError")
       ELSE ArrayOf(object, maxsize, priority, force)

\* ---------------------------------------------------------------- methods
\* Mutant: the start is left at the slot the content was copied to (s), which
\* in the left-exhausted case is one past the anchor.
Relocate_toSlot(ob, s, i, j) ==
    LET w == SetSlice(ob.data, s, j, GetSlice(ob.data, i, ob.j))
    IN IF w.ok THEN [ob EXCEPT !.data = w.data, !.i = s, !.j = j]
       ELSE Raise(ob, "ValueError")

\* Mutant: the copy is made and the end moved, the start is left where it was.
Relocate_startKept(ob, s, i, j) ==
    LET w == SetSlice(ob.data, s, j, GetSlice(ob.data, i, ob.j))
    IN IF w.ok THEN [ob EXCEPT !.data = w.data, !.j = j]
       ELSE Raise(ob, "ValueError")

\* The copy of _shift_buffer: _data[s:j] = _data[i:_j]; _i, _j = _s, j
Relocate(ob, s, i, j) ==
    LET w == SetSlice(ob.data, s, j, GetSlice(ob.data, i, ob.j))
    IN IF w.ok THEN [ob EXCEPT !.data = w.data, !.i = ob.s, !.j = j]
       ELSE Raise(ob, "ValueError")

\* Mutant: the shift moves the cursors and leaves the cells where they were.
_shift_buffer_noCopy(ob0) ==
    LET ob == [ob0 EXCEPT !.shift = "_shift_buffer"]
    IN IF ob.i = -1 THEN [ob EXCEPT !.i = ob.s, !.j = ob.s + 1 + ob.j]
       ELSE IF ob.i >= 0 THEN [ob EXCEPT !.i = ob.s, !.j = ob.s + ob.j - ob.i]
       ELSE Raise(ob, "RuntimeError")

\* Mutant: the left-exhausted case is looked for at _i = -2.
_shift_buffer_lateTest(ob0) ==
    LET ob == [ob0 EXCEPT !.shift = "_shift_buffer"]
    IN IF ob.i = -2 THEN Relocate(ob, ob.s + 1, 0, ob.s + 1 + ob.j)
       ELSE IF ob.i >= 0 THEN Relocate(ob, ob.s, ob.i, ob.s + ob.j - ob.i)
       ELSE Raise(ob, "RuntimeError")

_shift_buffer(ob0) ==
    LET ob == [ob0 EXCEPT !.shift = "_shift_buffer"]
    IN IF ob.i = -1 THEN Relocate(ob, ob.s + 1, 0, ob.s + 1 + ob.j)
       ELSE IF ob.i >= 0 THEN Relocate(ob, ob.s, ob.i, ob.s + ob.j - ob.i)
       ELSE Raise(ob, "RuntimeError")

\* Mutant: put does not discard the leftmost element of a full deque.
put_noEvict(ob0, value) ==
    LET b == IF ob0.j = ob0.bcap THEN _shift_buffer(ob0) ELSE ob0
        w == SetItem(b.data, b.j, value)
    IN IF b.err # "none" THEN b
       ELSE IF ~w.ok THEN Raise(b, "IndexError")
       ELSE View([b EXCEPT !.data = w.data, !.j = b.j + 1])

put(ob0, value) ==
    LET a == IF ob0.j - ob0.i = ob0.qcap THEN [ob0 EXCEPT !.i = ob0.i + 1] ELSE ob0
        b == IF a.j = a.bcap THEN _shift_buffer(a) ELSE a
        w == SetItem(b.data, b.j, value)
    IN IF b.err # "none" THEN b
       ELSE IF ~w.ok THEN Raise(b, "IndexError")
       ELSE View([b EXCEPT !.data = w.data, !.j = b.j + 1])

\* Mutant: the left-exhausted case writes at the anchor without making room:
\* the window is moved to start at _s, not _s + 1.
putleft_noRoom(ob0, value) ==
    LET a == IF ob0.j - ob0.i = ob0.qcap THEN [ob0 EXCEPT !.j = ob0.j - 1] ELSE ob0
        a1 == [a EXCEPT !.i = a.i - 1]
        b == IF a1.i = -1
             THEN Relocate([a1 EXCEPT !.shift = "_shift_buffer"], a1.s, 0, a1.s + a1.j)
             ELSE a1
        w == SetItem(b.data, b.i, value)
    IN IF b.err # "none" THEN b
       ELSE IF ~w.ok THEN Raise(b, "IndexError")
       ELSE View([b EXCEPT !.data = w.data])

putleft(ob0, value) ==
    LET a == IF ob0.j - ob0.i = ob0.qcap THEN [ob0 EXCEPT !.j = ob0.j - 1] ELSE ob0
        a1 == [a EXCEPT !.i = a.i - 1]
        b == IF a1.i = -1 THEN _shift_buffer(a1) ELSE a1
        w == SetItem(b.data, b.i, value)
    IN IF b.err # "none" THEN b
       ELSE IF ~w.ok THEN Raise(b, "IndexError")
       ELSE View([b EXCEPT !.data = w.data])

\* Mutant: the full overwrite keeps the first maxsize values, not the last.
putter_keepsFirst(ob0, values) ==
    LET dim == Len(values)
        new_size == ob0.j - ob0.i + dim
        a == IF new_size > ob0.qcap THEN [ob0 EXCEPT !.i = ob0.i + (new_size - ob0.qcap)]
             ELSE ob0
        b == IF a.j + dim >= a.bcap THEN _shift_buffer(a) ELSE a
        w == SetSlice(b.data, b.j, b.j + dim, values)
        o == [ob0 EXCEPT !.i = ob0.s, !.j = ob0.s + ob0.qcap]
        ow == SetSlice(o.data, o.i, o.j, SubSeq(values, 1, ob0.qcap))
    IN IF dim >= ob0.qcap
       THEN (IF ow.ok THEN View([o EXCEPT !.data = ow.data]) ELSE Raise(o, "ValueError"))
       ELSE IF b.err # "none" THEN b
       ELSE IF ~w.ok THEN Raise(b, "ValueError")
       ELSE View([b EXCEPT !.data = w.data, !.j = b.j + dim])

putter(ob0, values) ==
    LET dim == Len(values)
        new_size == ob0.j - ob0.i + dim
        a == IF new_size > ob0.qcap THEN [ob0 EXCEPT !.i = ob0.i + (new_size - ob0.qcap)]
             ELSE ob0
        b == IF a.j + dim >= a.bcap THEN _shift_buffer(a) ELSE a
        w == SetSlice(b.data, b.j, b.j + dim, values)
        \* overwriting the entire deque
        o == [ob0 EXCEPT !.i = ob0.s, !.j = ob0.s + ob0.qcap]
        ow == SetSlice(o.data, o.i, o.j, SubSeq(values, dim - ob0.qcap + 1, dim))
    IN IF dim >= ob0.qcap
       THEN (IF ow.ok THEN View([o EXCEPT !.data = ow.data]) ELSE Raise(o, "ValueError"))
       ELSE IF b.err # "none" THEN b
       ELSE IF ~w.ok THEN Raise(b, "ValueError")
       ELSE View([b EXCEPT !.data = w.data, !.j = b.j + dim])

\* Mutant: the full overwrite copies the last maxsize values without reversing.
putterleft_notReversed(ob0, values) ==
    LET dim == Len(values)
        new_size == ob0.j - ob0.i + dim
        a == IF new_size > ob0.qcap THEN [ob0 EXCEPT !.j = ob0.j - (new_size - ob0.qcap)]
             ELSE ob0
        s == a.s + dim
        j == s + a.j - a.i
        m == SetSlice(a.data, s, j, GetSlice(a.data, a.i, a.j))
        b == IF a.i - dim < 0
             THEN (IF m.ok THEN [a EXCEPT !.data = m.data, !.i = a.s, !.j = j,
                                          !.shift = "inline"]
                   ELSE Raise([a EXCEPT !.shift = "inline"], "ValueError"))
             ELSE [a EXCEPT !.i = a.i - dim]
        w == SetSlice(b.data, b.i, b.i + dim, Reverse(values))
        o == [ob0 EXCEPT !.i = ob0.s, !.j = ob0.s + ob0.qcap]
        ow == SetSlice(o.data, o.i, o.j, SubSeq(values, dim - ob0.qcap + 1, dim))
    IN IF dim >= ob0.qcap
       THEN (IF ow.ok THEN View([o EXCEPT !.data = ow.data]) ELSE Raise(o, "ValueError"))
       ELSE IF b.err # "none" THEN b
       ELSE IF ~w.ok THEN Raise(b, "ValueError")
       ELSE View([b EXCEPT !.data = w.data])

putterleft(ob0, values) ==
    LET dim == Len(values)
        new_size == ob0.j - ob0.i + dim
        a == IF new_size > ob0.qcap THEN [ob0 EXCEPT !.j = ob0.j - (new_size - ob0.qcap)]
             ELSE ob0
        \* the shift done in place when the left padding is too short
        s == a.s + dim
        j == s + a.j - a.i
        m == SetSlice(a.data, s, j, GetSlice(a.data, a.i, a.j))
        b == IF a.i - dim < 0
             THEN (IF m.ok THEN [a EXCEPT !.data = m.data, !.i = a.s, !.j = j,
                                          !.shift = "inline"]
                   ELSE Raise([a EXCEPT !.shift = "inline"], "ValueError"))
             ELSE [a EXCEPT !.i = a.i - dim]
        w == SetSlice(b.data, b.i, b.i + dim, Reverse(values))
        \* overwriting the entire deque
        o == [ob0 EXCEPT !.i = ob0.s, !.j = ob0.s + ob0.qcap]
        ow == SetSlice(o.data, o.i, o.j, SubSeq(Reverse(values), 1, ob0.qcap))
    IN IF dim >= ob0.qcap
       THEN (IF ow.ok THEN View([o EXCEPT !.data = ow.data]) ELSE Raise(o, "ValueError"))
       ELSE IF b.err # "none" THEN b
       ELSE IF ~w.ok THEN Raise(b, "ValueError")
       ELSE View([b EXCEPT !.data = w.data])

\* Mutant: pop returns the cell before the one it gave up.
pop_offByOne(ob0) ==
    LET a == [ob0 EXCEPT !.j = ob0.j - 1]
    IN IF ob0.i = ob0.j THEN [ob0 EXCEPT !.ret = None]
       ELSE IF ~ItemOk(a.j - 1, a.bcap) THEN Raise(View(a), "IndexError")
       ELSE [View(a) EXCEPT !.ret = <<GetItem(a.data, a.j - 1)>>]

pop(ob0) ==
    LET a == [ob0 EXCEPT !.j = ob0.j - 1]
    IN IF ob0.i = ob0.j THEN [ob0 EXCEPT !.ret = None]
       ELSE IF ~ItemOk(a.j, a.bcap) THEN Raise(View(a), "IndexError")
       ELSE [View(a) EXCEPT !.ret = <<GetItem(a.data, a.j)>>]

\* Mutant: popleft does not look whether the deque is empty.
popleft_unchecked(ob0) ==
    LET a == [ob0 EXCEPT !.i = ob0.i + 1]
    IN IF ~ItemOk(a.i - 1, a.bcap) THEN Raise(View(a), "IndexError")
       ELSE [View(a) EXCEPT !.ret = <<GetItem(a.data, a.i - 1)>>]

popleft(ob0) ==
    LET a == [ob0 EXCEPT !.i = ob0.i + 1]
    IN IF ob0.i = ob0.j THEN [ob0 EXCEPT !.ret = None]
       ELSE IF ~ItemOk(a.i - 1, a.bcap) THEN Raise(View(a), "IndexError")
       ELSE [View(a) EXCEPT !.ret = <<GetItem(a.data, a.i - 1)>>]

\* Mutant: a negative index is used as it is, not counted from maxsize.
drop_noNegative(ob0, index0) ==
    LET index == ob0.i + index0
        priority == IF ob0.priority \in {"ro", "lo", "eo"} THEN ob0.priority
                    ELSE IF (ob0.j - index) <= (index - ob0.i) THEN "ro"
                    ELSE "lo"
        l == SetSlice(ob0.data, index, ob0.j - 1, GetSlice(ob0.data, index + 1, ob0.j))
        r == SetSlice(ob0.data, ob0.i + 1, index + 1, GetSlice(ob0.data, ob0.i, index))
    IN IF index + 1 >= ob0.j THEN pop(ob0)
       ELSE IF index <= ob0.i THEN popleft(ob0)
       ELSE IF ~ItemOk(index, ob0.bcap) THEN Raise(ob0, "IndexError")
       ELSE IF priority = "ro"
       THEN (IF l.ok
             THEN View([ob0 EXCEPT !.data = l.data, !.j = ob0.j - 1,
                                   !.ret = <<GetItem(ob0.data, index)>>])
             ELSE Raise(ob0, "ValueError"))
       ELSE (IF r.ok
             THEN View([ob0 EXCEPT !.data = r.data, !.i = ob0.i + 1,
                                   !.ret = <<GetItem(ob0.data, index)>>])
             ELSE Raise(ob0, "ValueError"))

\* Mutant: the right-shifting drop moves the start and copies nothing.
drop_noCopy(ob0, index0) ==
    LET index1 == IF index0 < 0 THEN ob0.qcap + index0 ELSE index0
        index == ob0.i + index1
        priority == IF ob0.priority \in {"ro", "lo", "eo"} THEN ob0.priority
                    ELSE IF (ob0.j - index) <= (index - ob0.i) THEN "ro"
                    ELSE "lo"
        l == SetSlice(ob0.data, index, ob0.j - 1, GetSlice(ob0.data, index + 1, ob0.j))
    IN IF index + 1 >= ob0.j THEN pop(ob0)
       ELSE IF index <= ob0.i THEN popleft(ob0)
       ELSE IF ~ItemOk(index, ob0.bcap) THEN Raise(ob0, "IndexError")
       ELSE IF priority = "ro"
       THEN (IF l.ok
             THEN View([ob0 EXCEPT !.data = l.data, !.j = ob0.j - 1,
                                   !.ret = <<GetItem(ob0.data, index)>>])
             ELSE Raise(ob0, "ValueError"))
       ELSE View([ob0 EXCEPT !.i = ob0.i + 1, !.ret = <<GetItem(ob0.data, index)>>])

\* Mutant: without a *only mode the gap is closed from the farther side.
drop_fartherSide(ob0, index0) ==
    LET index1 == IF index0 < 0 THEN ob0.qcap + index0 ELSE index0
        index == ob0.i + index1
        priority == IF ob0.priority \in {"ro", "lo", "eo"} THEN ob0.priority
                    ELSE IF (ob0.j - index) > (index - ob0.i) THEN "ro"
                    ELSE "lo"
        l == SetSlice(ob0.data, index, ob0.j - 1, GetSlice(ob0.data, index + 1, ob0.j))
        r == SetSlice(ob0.data, ob0.i + 1, index + 1, GetSlice(ob0.data, ob0.i, index))
    IN IF index + 1 >= ob0.j THEN pop(ob0)
       ELSE IF index <= ob0.i THEN popleft(ob0)
       ELSE IF ~ItemOk(index, ob0.bcap) THEN Raise(ob0, "IndexError")
       ELSE IF priority = "ro"
       THEN (IF l.ok
             THEN View([ob0 EXCEPT !.data = l.data, !.j = ob0.j - 1,
                                   !.ret = <<GetItem(ob0.data, index)>>])
             ELSE Raise(ob0, "ValueError"))
       ELSE (IF r.ok
             THEN View([ob0 EXCEPT !.data = r.data, !.i = ob0.i + 1,
                                   !.ret = <<GetItem(ob0.data, index)>>])
             ELSE Raise(ob0, "ValueError"))

\* Mutant: the *only modes are not looked at: the nearer side always moves.
drop_nearerAlways(ob0, index0) ==
    LET index1 == IF index0 < 0 THEN ob0.qcap + index0 ELSE index0
        index == ob0.i + index1
        priority == IF (ob0.j - index) <= (index - ob0.i) THEN "ro"
                    ELSE "lo"
        l == SetSlice(ob0.data, index, ob0.j - 1, GetSlice(ob0.data, index + 1, ob0.j))
        r == SetSlice(ob0.data, ob0.i + 1, index + 1, GetSlice(ob0.data, ob0.i, index))
    IN IF index + 1 >= ob0.j THEN pop(ob0)
       ELSE IF index <= ob0.i THEN popleft(ob0)
       ELSE IF ~ItemOk(index, ob0.bcap) THEN Raise(ob0, "IndexError")
       ELSE IF priority = "ro"
       THEN (IF l.ok
             THEN View([ob0 EXCEPT !.data = l.data, !.j = ob0.j - 1,
                                   !.ret = <<GetItem(ob0.data, index)>>])
             ELSE Raise(ob0, "ValueError"))
       ELSE (IF r.ok
             THEN View([ob0 EXCEPT !.data = r.data, !.i = ob0.i + 1,
                                   !.ret = <<GetItem(ob0.data, index)>>])
             ELSE Raise(ob0, "ValueError"))

drop(ob0, index0) ==
    LET index1 == IF index0 < 0 THEN ob0.qcap + index0 ELSE index0
        index == ob0.i + index1
        priority == IF ob0.priority \in {"ro", "lo", "eo"} THEN ob0.priority
                    ELSE IF (ob0.j - index) <= (index - ob0.i) THEN "ro"
                    ELSE "lo"
        l == SetSlice(ob0.data, index, ob0.j - 1, GetSlice(ob0.data, index + 1, ob0.j))
        r == SetSlice(ob0.data, ob0.i + 1, index + 1, GetSlice(ob0.data, ob0.i, index))
    IN IF index + 1 >= ob0.j THEN pop(ob0)
       ELSE IF index <= ob0.i THEN popleft(ob0)
       ELSE IF ~ItemOk(index, ob0.bcap) THEN Raise(ob0, "IndexError")
       ELSE IF priority = "ro"
       THEN (IF l.ok
             THEN View([ob0 EXCEPT !.data = l.data, !.j = ob0.j - 1,
                                   !.ret = <<GetItem(ob0.data, index)>>])
             ELSE Raise(ob0, "ValueError"))
       ELSE (IF r.ok
             THEN View([ob0 EXCEPT !.data = r.data, !.i = ob0.i + 1,
                                   !.ret = <<GetItem(ob0.data, index)>>])
             ELSE Raise(ob0, "ValueError"))

\* The cells of the view self.deque
DequeView(ob) == SubSeq(ob.data, ob.deque.lo + 1, ob.deque.hi)

\* Mutant: the index is applied to the buffer from _i on, not to the view.
__getitem__fromBuffer(ob, index) ==
    IF ItemOk(ob.i + index, ob.bcap)
    THEN [ob EXCEPT !.ret = <<GetItem(ob.data, ob.i + index)>>]
    ELSE Raise(ob, "IndexError")

\* __getitem__(index) for an integer index: self.deque[index]
__getitem__(ob, index) ==
    IF ItemOk(index, Len(DequeView(ob)))
    THEN [ob EXCEPT !.ret = <<GetItem(DequeView(ob), index)>>]
    ELSE Raise(ob, "IndexError")

\* np.where(self.deque == value)[0]
where(ob, value) == {p \in 0 .. Len(DequeView(ob)) - 1 : DequeView(ob)[p + 1] = value}

\* Mutant: index returns the last match, not the first.
index_lastMatch(ob, value) ==
    LET hits == {p \in where(ob, value) : 0 <= p /\ p < ob.j - ob.i}
    IN IF hits = {} THEN None
       ELSE <<CHOOSE p \in hits : \A q \in hits : p >= q>>

\* index(value): the first match p with 0 <= p < size, or None
index(ob, value) ==
    LET hits == {p \in where(ob, value) : 0 <= p /\ p < ob.j - ob.i}
    IN IF hits = {} THEN None
       ELSE <<CHOOSE p \in hits : \A q \in hits : p <= q>>

remove(ob0, value) ==
    LET p == index(ob0, value)
    IN IF p = None THEN ob0
       ELSE [drop(ob0, p[1]) EXCEPT !.ret = None]

\* Mutant: clear also takes the anchor back to cell 0.
clear_resetsAnchor(ob0) == View([ob0 EXCEPT !.i = 0, !.j = 0, !.s = 0])

clear(ob0) == View([ob0 EXCEPT !.i = 0, !.j = 0])

\* The values of q in ascending order.
RECURSIVE Sorted(_)
Sorted(q) ==
    IF q = <<>> THEN <<>>
    ELSE LET least == CHOOSE k \in 1 .. Len(q) : \A m \in 1 .. Len(q) : q[k] <= q[m]
         IN <<q[least]>> \o Sorted(SubSeq(q, 1, least - 1) \o SubSeq(q, least + 1, Len(q)))

\* The view self.deque written with the values q, cell by cell.
WriteView(ob, q) ==
    [ob EXCEPT !.data = [k \in 1 .. Len(ob.data) |->
                            IF k > ob.deque.lo /\ k <= ob.deque.hi
                            THEN q[k - ob.deque.lo] ELSE ob.data[k]]]

\* sort(): self.deque.sort()
sort(ob0) == WriteView(ob0, Sorted(DequeView(ob0)))

\* reverse(): _reverse_in_place(self.deque) swaps cell k and cell n - k - 1
reverse(ob0) == WriteView(ob0, Reverse(DequeView(ob0)))

\* copy(): array(self.deque, None, self.dtype, None, self._priority,
\* _force_buffer_size=self._bcap), the new object
copy(ob0) == ArrayOf(DequeView(ob0), None, ob0.priority, ob0.bcap)

\* ------------------------------------------------------------------ state
VARIABLES
    self,   \* the NumpyDeque object; err, ret and shift are the last call's outcome
    op,     \* the call that has just returned, "idle" between calls
    arg,    \* its argument
    pre     \* the object as it was when that call was made

vars == <<self, op, arg, pre>>

\* What a call starts from: the object, with the last call's outcome cleared.
Enter(ob) == [ob EXCEPT !.err = "none", !.ret = None, !.shift = "none"]

Fills == {None} \cup {<<v>> : v \in Values}

\* The strings a caller passes as priority: the five modes, one that starts
\* with none of e, r, l, and one that is no mode but starts with r and has an o.
PriorityStrings == Priorities \cup {"invalid", "random"}

\* NumpyDeque(maxsize, fill, priority=priority, _force_buffer_size=force)
New ==
    \E force \in 0 .. MaxBcap, maxsize \in -1 .. MaxBcap, fill \in Fills,
       priority \in PriorityStrings :
        /\ maxsize <= force
        /\ self = Construct(maxsize, fill, priority, force)
        /\ op = "init"
        /\ arg = <<maxsize, fill, priority, force>>
        /\ pre = self

FromArray ==
    \E force \in 0 .. MaxBcap, object \in ValueSeqs,
       maxsize \in {None} \cup {<<m>> : m \in 0 .. MaxBcap}, priority \in PriorityStrings :
        /\ Len(object) <= force
        /\ maxsize # None => maxsize[1] <= force
        /\ self = Array(object, maxsize, priority, force)
        /\ op = "array"
        /\ arg = <<object, maxsize, priority, force>>
        /\ pre = self

Init == New \/ FromArray

\* A method call on the object between two calls, up to its return or raise.
Call(name, a, result) ==
    /\ op = "idle"
    /\ op' = name
    /\ arg' = a
    /\ pre' = self
    /\ self' = result

\* The caller takes the result and goes on; after an exception the run is over.
Resume ==
    /\ op # "idle"
    /\ self.err = "none"
    /\ op' = "idle"
    /\ arg' = None
    /\ self' = Enter(self)
    /\ pre' = self'

Put == \E v \in Values : Call("put", <<v>>, put(self, v))

PutLeft == \E v \in Values : Call("putleft", <<v>>, putleft(self, v))

Putter == \E values \in ValueSeqs : Call("putter", values, putter(self, values))

PutterLeft ==
    \E values \in ValueSeqs : Call("putterleft", values, putterleft(self, values))

Pop == Call("pop", None, pop(self))

PopLeft == Call("popleft", None, popleft(self))

DropIndexes == -(MaxBcap + 1) .. MaxBcap

Drop == \E k \in DropIndexes : Call("drop", <<k>>, drop(self, k))

Remove == \E v \in Values : Call("remove", <<v>>, remove(self, v))

Clear == Call("clear", None, clear(self))

\* d[k] for an integer k
Getitem == \E k \in DropIndexes : Call("__getitem__", <<k>>, __getitem__(self, k))

\* copy() returns the new object and leaves self alone.
Copy == Call("copy", None, [self EXCEPT !.ret = <<copy(self)>>])

Next ==
    \/ Put
    \/ PutLeft
    \/ Putter
    \/ PutterLeft
    \/ Pop
    \/ PopLeft
    \/ Drop
    \/ Remove
    \/ Clear
    \/ Copy
    \/ Getitem
    \/ Resume

Spec == Init /\ [][Next]_vars

\* ------------------------------------------------- with sort and reverse
Sort == Call("sort", None, sort(self))

ReverseDeque == Call("reverse", None, reverse(self))

NextAll ==
    \/ Put
    \/ PutLeft
    \/ Putter
    \/ PutterLeft
    \/ Pop
    \/ PopLeft
    \/ Drop
    \/ Remove
    \/ Clear
    \/ Sort
    \/ ReverseDeque
    \/ Resume

SpecAll == Init /\ [][NextAll]_vars

\* Deques wide enough for drop to have an interior index and a choice of side:
\* maxsize from DropMinsize to DropMaxsize, with 0 to DropPad cells of padding.
DropMinsize == 3
DropMaxsize == 4
DropPad == 2

NewForDrop ==
    \E maxsize \in DropMinsize .. DropMaxsize, pad \in 0 .. DropPad,
       fill \in Fills, priority \in Priorities :
        /\ self = Construct(maxsize, fill, priority, maxsize + pad)
        /\ op = "init"
        /\ arg = <<maxsize, fill, priority, maxsize + pad>>
        /\ pre = self

NextDrop ==
    \/ Put
    \/ PutLeft
    \/ Pop
    \/ PopLeft
    \/ Drop
    \/ Remove
    \/ Resume

SpecDrop == NewForDrop /\ [][NextDrop]_vars

\* The sizing step of the constructor on its own: __init__ is entered with
\* maxsize and buffer_padding (no _force_buffer_size) and runs up to the
\* assignment of _bcap; the object then has _qcap and _bcap and nothing else.
SizingMaxsize == 4200
SizingPadding == 12

Entered ==
    \E maxsize \in -1 .. SizingMaxsize,
       buffer_padding \in {None} \cup {<<h>> : h \in 0 .. SizingPadding} :
        /\ self = None
        /\ op = "__init__"
        /\ arg = <<maxsize, buffer_padding>>
        /\ pre = self

SizeBuffer ==
    /\ op = "__init__"
    /\ LET qcap == IF arg[1] < 1 THEN 0 ELSE arg[1]
       IN self' = [qcap |-> qcap, bcap |-> _get_buffer_size(qcap, arg[2])]
    /\ op' = "sized"
    /\ UNCHANGED <<arg, pre>>

SpecSizing == Entered /\ [][SizeBuffer]_vars

\* A caller that catches what a call raises and goes on with the object as
\* the failed call left it.  Only a deque of maxsize 0 ever raises, and its
\* cursors can then leave the buffer without limit: the run is followed
\* while they are within CaughtReach cells of it.
CaughtReach == 3

ResumeCaught ==
    /\ op # "idle"
    /\ op \in {"init", "array"} => self.err = "none"
    /\ self.i >= -CaughtReach /\ self.i <= self.bcap + CaughtReach
    /\ self.j >= -CaughtReach /\ self.j <= self.bcap + CaughtReach
    /\ op' = "idle"
    /\ arg' = None
    /\ self' = Enter(self)
    /\ pre' = self'

NextCaught ==
    \/ Put
    \/ PutLeft
    \/ Putter
    \/ PutterLeft
    \/ Pop
    \/ PopLeft
    \/ Drop
    \/ Remove
    \/ Clear
    \/ ResumeCaught

SpecCaught == Init /\ [][NextCaught]_vars

\* ----------------------------------------------- the constructor's placement
\* __init__ up to the anchor, step by step: the request, the buffer capacity
\* (computed, or forced to max(maxsize, _force_buffer_size)), then the anchor
\* _s and the flag _priority.  No cell is allocated here, so that the pads
\* can be wider than those of Spec.
PlacingMaxsize == 4
PlacingForce == 12

Asked ==
    \E maxsize \in -1 .. PlacingMaxsize, priority \in PriorityStrings,
       force \in {None} \cup {<<f>> : f \in 0 .. PlacingForce} :
        /\ self = [qcap |-> IF maxsize < 1 THEN 0 ELSE maxsize, bcap |-> 0,
                   s |-> 0, priority |-> "", err |-> "none"]
        /\ op = "asked"
        /\ arg = <<maxsize, priority, force>>
        /\ pre = self

Allocate ==
    /\ op = "asked"
    /\ self' = [self EXCEPT !.bcap = IF arg[3] = None
                                     THEN _get_buffer_size(self.qcap, None)
                                     ELSE Max(self.qcap, arg[3][1])]
    /\ op' = "allocated"
    /\ pre' = self
    /\ UNCHANGED arg

Place ==
    /\ op = "allocated"
    /\ LET a == Anchor(self.bcap - self.qcap, arg[2])
       IN self' = [self EXCEPT !.s = a.s, !.priority = a.priority, !.err = a.err]
    /\ op' = "placed"
    /\ pre' = self
    /\ UNCHANGED arg

NextPlacing == Allocate \/ Place

SpecPlacing == Asked /\ [][NextPlacing]_vars

\* ----------------------------------------------------------------- views
\* The logical contents buffer[start:end] and the size end - start.
Contents(ob) == GetSlice(ob.data, ob.i, ob.j)
Size(ob) == ob.j - ob.i

\* A deque exists: the constructor or array() did not raise.
Built == ~(op \in {"init", "array"} /\ self.err # "none")

Insertions == {"put", "putleft", "putter", "putterleft"}

\* ---------------------------------------------------------------- claims
\* C1: after every call (put, putleft, putter, putterleft, pop, popleft,
\* drop, remove, clear) on a deque built by the constructor or by array(),
\* size = end - start is at most maxSize.
C1_SizeAtMostMaxsize == Built => Size(self) <= self.qcap

\* C1 witness: a put on a full deque has returned and the deque is still full.
C1_Witness ==
    /\ op = "put" /\ self.err = "none"
    /\ self.qcap >= 2 /\ Size(pre) = self.qcap /\ Size(self) = self.qcap

\* C2: after every public operation the cursors satisfy
\* 0 <= start <= end <= bufferCapacity.
C2_CursorsInBuffer ==
    Built => 0 <= self.i /\ self.i <= self.j /\ self.j <= self.bcap

\* C2 for maxsize >= 1 only.
C2_CursorsInBufferPositive == self.qcap >= 1 => C2_CursorsInBuffer

\* The call returned (it did not raise).
Returned == self.err = "none"

\* C3: put(v) on contents c: below maxSize the contents become c followed by
\* v; at maxSize the leftmost element is discarded and the contents become
\* c[1:] followed by v, the size staying maxSize; with or without a shift.
C3_PutAppends ==
    op = "put" =>
        LET c == Contents(pre)
            v == arg[1]
        IN /\ Size(pre) < pre.qcap =>
                /\ Returned
                /\ Contents(self) = Append(c, v)
                /\ Size(self) = Size(pre) + 1
           /\ (Size(pre) = pre.qcap /\ c # <<>>) =>
                /\ Returned
                /\ Contents(self) = Append(Tail(c), v)
                /\ Size(self) = pre.qcap

\* C3 witness: a put on a full deque whose window ends at the buffer's end,
\* so that the call shifts.
C3_Witness ==
    /\ op = "put" /\ Returned
    /\ pre.qcap >= 2 /\ Size(pre) = pre.qcap
    /\ self.shift = "_shift_buffer"
    /\ Contents(pre)[1] # Contents(pre)[2]

\* C4: putleft(v) on contents c: below maxSize the contents become v followed
\* by c; at maxSize the rightmost element is discarded and the contents
\* become v followed by c[:-1]; with or without a left-exhausted shift.
C4_PutleftPrepends ==
    op = "putleft" =>
        LET c == Contents(pre)
            v == arg[1]
        IN /\ Size(pre) < pre.qcap =>
                /\ Returned
                /\ Contents(self) = <<v>> \o c
                /\ Size(self) = Size(pre) + 1
           /\ (Size(pre) = pre.qcap /\ c # <<>>) =>
                /\ Returned
                /\ Contents(self) = <<v>> \o SubSeq(c, 1, Len(c) - 1)
                /\ Size(self) = pre.qcap

\* C4 witness: a putleft on a full deque whose window starts at cell 0, so
\* that the call does the left-exhausted shift.
C4_Witness ==
    /\ op = "putleft" /\ Returned
    /\ pre.qcap >= 2 /\ Size(pre) = pre.qcap /\ pre.i = 0
    /\ self.shift = "_shift_buffer"
    /\ Contents(pre)[1] # Contents(pre)[2]

\* for v in values: self.put(v)
RECURSIVE PutLoop(_, _)
PutLoop(ob, values) ==
    IF values = <<>> \/ ob.err # "none" THEN ob
    ELSE PutLoop(put(ob, Head(values)), Tail(values))

\* for v in values: self.putleft(v)
RECURSIVE PutleftLoop(_, _)
PutleftLoop(ob, values) ==
    IF values = <<>> \/ ob.err # "none" THEN ob
    ELSE PutleftLoop(putleft(ob, Head(values)), Tail(values))

\* C5: putter(values) is equivalent to put(v) for each v of values in order:
\* from every reachable state and for every finite values, the contents and
\* the size are those the element-wise loop leaves.
C5_PutterIsPutLoop ==
    op = "putter" =>
        LET loop == PutLoop(pre, arg)
        IN /\ Returned
           /\ loop.err = "none"
           /\ Contents(self) = Contents(loop)
           /\ Size(self) = Size(loop)

\* C5 for maxsize >= 1 only.
C5_PutterIsPutLoopPositive == pre.qcap >= 1 => C5_PutterIsPutLoop

\* The first n elements of q (all of q when it is shorter).
FirstN(q, n) == SubSeq(q, 1, IF Len(q) < n THEN Len(q) ELSE n)

\* The last n elements of q (all of q when it is shorter).
LastN(q, n) == SubSeq(q, (IF Len(q) < n THEN 0 ELSE Len(q) - n) + 1, Len(q))

\* C6: putterleft(values) is equivalent to putleft(v) for each v of values in
\* order: the contents are the reversed values followed by the old contents,
\* truncated on the right to maxSize elements.
C6_PutterleftIsPutleftLoop ==
    op = "putterleft" =>
        LET loop == PutleftLoop(pre, arg)
        IN /\ Returned
           /\ loop.err = "none"
           /\ Contents(self) = Contents(loop)
           /\ Contents(self) = FirstN(Reverse(arg) \o Contents(pre), pre.qcap)

\* C6 for maxsize >= 1 only.
C6_PutterleftIsPutleftLoopPositive == pre.qcap >= 1 => C6_PutterleftIsPutleftLoop

\* C7: putter(values) with len(values) >= maxSize overwrites the whole deque
\* from any prior state: the window is [anchorOffset, anchorOffset + maxSize)
\* and the contents are the last maxSize elements of values, in order.
C7_PutterOverwrites ==
    (op = "putter" /\ Len(arg) >= pre.qcap) =>
        /\ Returned
        /\ self.i = self.s
        /\ self.j = self.s + self.qcap
        /\ Contents(self) = LastN(arg, self.qcap)

\* C7 witness: a longer input overwrote a non-empty deque that sat off the anchor.
C7_Witness ==
    /\ op = "putter" /\ Returned
    /\ Len(arg) > pre.qcap /\ pre.qcap >= 2
    /\ Size(pre) > 0 /\ pre.i # pre.s
    /\ arg[1] # arg[Len(arg)]

\* C8 as claimed: in the full-overwrite case of putterleft the contents become
\* the last maxSize elements of the reversed input.
C8_LastOfReversed ==
    (op = "putterleft" /\ Len(arg) >= pre.qcap) =>
        /\ Returned
        /\ Contents(self) = LastN(Reverse(arg), self.qcap)

\* C8 amended: in the full-overwrite case of putterleft the contents become
\* the first maxSize elements of the reversed input, which are the last
\* maxSize elements of the input in reverse order.
C8_FirstOfReversed ==
    (op = "putterleft" /\ Len(arg) >= pre.qcap) =>
        /\ Returned
        /\ Contents(self) = FirstN(Reverse(arg), self.qcap)
        /\ Contents(self) = Reverse(LastN(arg, self.qcap))

\* C8 witness: an input longer than maxSize whose two ends differ.
C8_Witness ==
    /\ op = "putterleft" /\ Returned
    /\ Len(arg) > pre.qcap /\ pre.qcap >= 1
    /\ arg[1] # arg[Len(arg)]
    /\ Contents(self)[1] = arg[Len(arg)]

\* C9: on a non-empty deque with contents c, pop() returns c[-1] and leaves
\* c[:-1], changing only end (one less); popleft() returns c[0] and leaves
\* c[1:], changing only start (one more); no buffer cell changes.
C9_PopTakesAnEnd ==
    LET c == Contents(pre)
    IN /\ (op = "pop" /\ Size(pre) > 0) =>
            /\ Returned
            /\ self.ret = <<c[Len(c)]>>
            /\ Contents(self) = SubSeq(c, 1, Len(c) - 1)
            /\ self.j = pre.j - 1 /\ self.i = pre.i /\ self.data = pre.data
       /\ (op = "popleft" /\ Size(pre) > 0) =>
            /\ Returned
            /\ self.ret = <<c[1]>>
            /\ Contents(self) = Tail(c)
            /\ self.i = pre.i + 1 /\ self.j = pre.j /\ self.data = pre.data

\* C9 witness: a pop took the right end of a deque whose two ends differ.
C9_Witness ==
    /\ op = "pop" /\ Returned
    /\ Size(pre) >= 2
    /\ Contents(pre)[1] # Contents(pre)[Size(pre)]
    /\ self.ret = <<Contents(pre)[Size(pre)]>>

\* C10: pop() and popleft() on an empty deque (start = end, wherever the
\* window sits) return None and leave start, end and the buffer unchanged,
\* also when earlier pops, drops or a clear emptied it.
C10_PopOnEmpty ==
    (op \in {"pop", "popleft"} /\ pre.i = pre.j) =>
        /\ Returned
        /\ self.ret = None
        /\ self.i = pre.i /\ self.j = pre.j /\ self.data = pre.data

\* C10 witness: a pop on a deque emptied off the anchor, its cell still set.
C10_Witness ==
    /\ op = "pop" /\ Returned
    /\ pre.i = pre.j /\ pre.i # pre.s /\ pre.i > 0
    /\ pre.data[pre.i] # Uninit
    /\ self.ret = None

\* The sequence q without its element at position p (1-based).
RemoveAt(q, p) == SubSeq(q, 1, p - 1) \o SubSeq(q, p + 1, Len(q))

\* C11: drop(k) with 0 <= k < size on contents c returns c[k] and leaves c
\* with position k removed, the other elements in their order and the size
\* one less, in every padding mode and whichever side drop closes the gap from.
C11_DropRemovesIndex ==
    (op = "drop" /\ 0 <= arg[1] /\ arg[1] < Size(pre)) =>
        LET c == Contents(pre)
            k == arg[1]
        IN /\ Returned
           /\ self.ret = <<c[k + 1]>>
           /\ Contents(self) = RemoveAt(c, k + 1)
           /\ Size(self) = Size(pre) - 1

\* C11 witness: an interior drop closed the gap from the left (start moved)
\* in a mode that leaves the side open, and the dropped element differs from
\* the first.
C11_Witness ==
    /\ op = "drop" /\ Returned
    /\ 0 < arg[1] /\ arg[1] < Size(pre) - 1
    /\ pre.priority \in {"r", "l", "e"}
    /\ self.i = pre.i + 1 /\ self.j = pre.j
    /\ Contents(pre)[1] # Contents(pre)[arg[1] + 1]

\* Two outcomes a caller cannot tell apart: the same exception or return
\* value, and the same logical contents.
SameOutcome(a, b) ==
    /\ a.err = b.err
    /\ a.ret = b.ret
    /\ Contents(a) = Contents(b)

\* C12: in every reachable state (full, partially filled, single-element or
\* empty) drop(-1) returns what pop() would and leaves the same contents, and
\* drop(0) returns what popleft() would and leaves the same contents.
C12_DropEndsArePops ==
    /\ (op = "drop" /\ arg = <<-1>>) => (Returned /\ SameOutcome(self, pop(pre)))
    /\ (op = "drop" /\ arg = <<0>>) => (Returned /\ SameOutcome(self, popleft(pre)))

\* C12 witness: drop(-1) on a partially filled deque whose two ends differ
\* returned the last element.
C12_Witness ==
    /\ op = "drop" /\ arg = <<-1>> /\ Returned
    /\ Size(pre) >= 2 /\ Size(pre) < pre.qcap
    /\ Contents(pre)[1] # Contents(pre)[Size(pre)]
    /\ self.ret = <<Contents(pre)[Size(pre)]>>

\* C13: drop supports negative indexing where -1 is the last element:
\* drop(-k) with 1 <= k <= size on contents c removes and returns
\* c[size - k] and leaves the other elements in order.
C13_DropNegativeIndex ==
    (op = "drop" /\ arg[1] < 0 /\ -arg[1] <= Size(pre)) =>
        LET c == Contents(pre)
            p == Size(pre) + arg[1] + 1
        IN /\ Returned
           /\ self.ret = <<c[p]>>
           /\ Contents(self) = RemoveAt(c, p)

\* C13 on a full deque only, where maxsize and size are the same number.
C13_DropNegativeIndexFull == Size(pre) = pre.qcap => C13_DropNegativeIndex

\* C13 where it fails: drop(-2) on a partially filled deque took the last
\* element, not the one before it.
C13_TookTheLast ==
    /\ op = "drop" /\ arg = <<-2>> /\ Returned
    /\ Size(pre) >= 2 /\ Size(pre) < pre.qcap
    /\ Contents(pre)[Size(pre)] # Contents(pre)[Size(pre) - 1]
    /\ self.ret = <<Contents(pre)[Size(pre)]>>

\* C14: an index beyond an end results in pop or popleft: drop(i) with
\* i >= size behaves as pop() and drop(i) with i < -size behaves as
\* popleft(), in every reachable state; it never raises and never removes an
\* interior element.
C14_DropBeyondAnEnd ==
    /\ (op = "drop" /\ arg[1] >= Size(pre)) => (Returned /\ SameOutcome(self, pop(pre)))
    /\ (op = "drop" /\ arg[1] < -Size(pre)) => (Returned /\ SameOutcome(self, popleft(pre)))

\* C14 for indexes beyond the right end only.
C14_DropBeyondRightEnd ==
    (op = "drop" /\ arg[1] >= Size(pre)) => (Returned /\ SameOutcome(self, pop(pre)))

\* C14 for indexes below -maxsize (and not only below -size).
C14_DropBelowMaxsize ==
    (op = "drop" /\ arg[1] < -pre.qcap) => (Returned /\ SameOutcome(self, popleft(pre)))

\* C14 where it fails: an index below -size took the right end of a deque
\* whose two ends differ.
C14_TookTheRightEnd ==
    /\ op = "drop" /\ arg[1] < -Size(pre) /\ Returned
    /\ Size(pre) >= 2
    /\ Contents(pre)[1] # Contents(pre)[Size(pre)]
    /\ self.ret = <<Contents(pre)[Size(pre)]>>

\* The positions (1-based) of value in the sequence q.
Occurrences(q, value) == {p \in 1 .. Len(q) : q[p] = value}

\* C15: remove(value) deletes exactly the first (lowest-index) occurrence of
\* value and leaves every other element, later duplicates included, in its
\* original order; when value does not occur, start, end and the contents
\* are unchanged.
C15_RemoveFirstOccurrence ==
    op = "remove" =>
        LET c == Contents(pre)
            hits == Occurrences(c, arg[1])
        IN /\ Returned
           /\ hits = {} =>
                /\ self.i = pre.i /\ self.j = pre.j
                /\ Contents(self) = c
           /\ hits # {} =>
                Contents(self) = RemoveAt(c, CHOOSE p \in hits : \A q \in hits : p <= q)

\* C15 witness: the value occurred twice with another element in between,
\* and the later occurrence is still there.
C15_Witness ==
    /\ op = "remove" /\ Returned
    /\ Size(pre) >= 3
    /\ Contents(pre)[1] = arg[1]
    /\ Contents(pre)[2] # arg[1]
    /\ Contents(pre)[3] = arg[1]
    /\ Contents(self) = Tail(Contents(pre))

\* The copy and the original behave alike under one more call of each
\* insertion and removal.
BehaveAlike(a, b) ==
    /\ \A v \in Values :
          /\ SameOutcome(put(a, v), put(b, v))
          /\ SameOutcome(putleft(a, v), putleft(b, v))
          /\ SameOutcome(remove(a, v), remove(b, v))
    /\ \A values \in ValueSeqs :
          /\ SameOutcome(putter(a, values), putter(b, values))
          /\ SameOutcome(putterleft(a, values), putterleft(b, values))
    /\ SameOutcome(pop(a), pop(b))
    /\ SameOutcome(popleft(a), popleft(b))
    /\ \A k \in DropIndexes : SameOutcome(drop(a, k), drop(b, k))

\* C16: copy() of a deque in any reachable state (full, partially filled or
\* empty) returns an instance with the same maxSize, the same paddingMode,
\* the same bufferCapacity and the same logical contents as the original,
\* and the two behave identically under the same next operation.
C16_CopyIsTheSame ==
    op = "copy" =>
        LET new == self.ret[1]
        IN /\ new.err = "none"
           /\ new.qcap = pre.qcap
           /\ new.priority = pre.priority
           /\ new.bcap = pre.bcap
           /\ Contents(new) = Contents(pre)
           /\ BehaveAlike(new, pre)

\* C16 for a full deque of maxsize >= 1 only.
C16_CopyOfFullIsTheSame == (Size(pre) = pre.qcap /\ pre.qcap >= 1) => C16_CopyIsTheSame

\* C16 with the configuration and the contents only, for a full deque.
C16_CopyOfFullHasTheSame ==
    (op = "copy" /\ Size(pre) = pre.qcap) =>
        LET new == self.ret[1]
        IN /\ new.err = "none"
           /\ new.qcap = pre.qcap
           /\ new.priority = pre.priority
           /\ new.bcap = pre.bcap
           /\ Contents(new) = Contents(pre)

\* C16 where it fails: the copy of a partially filled deque has a smaller
\* maxsize, and a put on it discards an element the original keeps.
C16_CopyIsSmaller ==
    /\ op = "copy"
    /\ Size(pre) >= 1 /\ Size(pre) < pre.qcap
    /\ self.ret[1].qcap = Size(pre)
    /\ \E v \in Values : Contents(put(self.ret[1], v)) # Contents(put(pre, v))

\* A freshly constructed empty deque of the same maxsize, mode and buffer.
Fresh(ob) == Construct(ob.qcap, None, _PRIORITY_FLAG(ob.priority), ob.bcap)

\* C17: clear() from any reachable state sets start = end = 0 (size 0)
\* whatever the anchor is, and what follows produces the same contents and
\* return values as on a freshly constructed empty deque of the same maxSize.
C17_ClearIsFresh ==
    op = "clear" =>
        /\ Returned
        /\ self.i = 0 /\ self.j = 0 /\ Size(self) = 0
        /\ BehaveAlike(self, Fresh(pre))

\* C17 for maxsize >= 1 only.
C17_ClearIsFreshPositive == pre.qcap >= 1 => C17_ClearIsFresh

\* C17, two calls deep, for maxsize >= 1: after any first insertion the
\* cleared and the fresh deque still behave alike.
C17_ClearIsFreshTwice ==
    (op = "clear" /\ pre.qcap >= 1) =>
        /\ \A v \in Values :
              /\ BehaveAlike(Enter(put(self, v)), Enter(put(Fresh(pre), v)))
              /\ BehaveAlike(Enter(putleft(self, v)), Enter(putleft(Fresh(pre), v)))
        /\ \A values \in ValueSeqs :
              /\ BehaveAlike(Enter(putter(self, values)), Enter(putter(Fresh(pre), values)))
              /\ BehaveAlike(Enter(putterleft(self, values)),
                             Enter(putterleft(Fresh(pre), values)))

\* C17 where it fails: a putleft after clear() raises while the same putleft
\* on the fresh deque returns.
C17_ClearedRaises ==
    /\ op = "clear" /\ Returned
    /\ \E v \in Values :
          /\ putleft(self, v).err # "none"
          /\ putleft(Fresh(pre), v).err = "none"

\* The constructor ran with a priority string that is none of the five modes
\* (array() reaches it only for a non-empty list).
InvalidPriorityGiven ==
    /\ arg[3] \notin Priorities
    /\ \/ op = "init"
       \/ op = "array" /\ arg[1] # <<>>

\* C18: construction with a paddingMode string that is not one of equal,
\* right, left, rightonly, leftonly fails with ValueError and produces no
\* deque, for every maxSize and every buffer capacity, a forced capacity that
\* leaves pad < 2 included.
C18_InvalidPriorityRaises ==
    (op \in {"init", "array"} /\ InvalidPriorityGiven) => self.err = "ValueError"

\* C18 for a string starting with none of e, r, l and pad >= 2 only.
C18_InvalidPriorityRaisesPadded ==
    (op \in {"init", "array"} /\ InvalidPriorityGiven
        /\ arg[3] = "invalid" /\ self.bcap - self.qcap >= 2) => self.err = "ValueError"

\* C18 where it fails: "invalid" was accepted because pad < 2, and the deque
\* is a rightonly one.
C18_InvalidAccepted ==
    /\ op = "init" /\ arg[3] = "invalid"
    /\ self.err = "none" /\ self.priority = "ro"
    /\ self.bcap - self.qcap < 2

\* C18 where it fails: "random" was accepted with pad >= 2 as rightonly.
C18_RandomAccepted ==
    /\ op = "init" /\ arg[3] = "random"
    /\ self.err = "none" /\ self.priority = "ro"
    /\ self.bcap - self.qcap >= 2

\* C19: for every maxSize >= 0 and every padding hint p >= 0 the computed
\* bufferCapacity is at least maxSize + 2*p (strictly greater, as the
\* constructor's docstring has it), hence bufferCapacity >= maxSize; the
\* latter also without a hint.
C19_CapacityCoversRequest ==
    op = "sized" =>
        /\ self.bcap >= self.qcap
        /\ arg[2] # None =>
             /\ self.bcap >= self.qcap + 2 * arg[2][1]
             /\ self.bcap > self.qcap + 2 * arg[2][1]

\* C19 witness: a hint was given and the power of two above the request was
\* more than _MAX_AUTO_BUFFER beyond it, so the capacity was cut back.
C19_Witness ==
    /\ op = "sized" /\ arg[2] # None /\ arg[2][1] > 0
    /\ _next_power_of_2(self.qcap + 2 * arg[2][1]) - (self.qcap + 2 * arg[2][1])
            > _MAX_AUTO_BUFFER
    /\ self.bcap < _next_power_of_2(self.qcap + 2 * arg[2][1])

\* C20: reading logical index i with i >= size fails with an index error in
\* every reachable state, also when the buffer cell start + i still holds a
\* value left behind by an earlier pop, popleft, drop or eviction; nothing
\* outside [start, end) is returned.
C20_ReadBeyondSizeRaises ==
    (op = "__getitem__" /\ arg[1] >= Size(pre)) =>
        /\ self.err = "IndexError"
        /\ self.ret = None

\* C20 witness: the read was of index size, whose buffer cell holds a value
\* written earlier, and it raised.
C20_Witness ==
    /\ op = "__getitem__" /\ arg[1] = Size(pre)
    /\ Size(pre) >= 1
    /\ pre.j < pre.bcap /\ pre.data[pre.j + 1] # Uninit
    /\ self.err = "IndexError"

\* C21: a deque constructed without fill has size 0, one constructed with
\* fill has size maxSize with every element equal to fill; in both cases
\* start is the anchor and the reported maxSize is the requested one (a
\* request of 0 or more), for every padding mode.
C21_ConstructedAsAsked ==
    (op = "init" /\ arg[3] \in Priorities) =>
        /\ Returned
        /\ arg[2] = None => Size(self) = 0
        /\ arg[2] # None =>
             /\ Size(self) = self.qcap
             /\ Contents(self) = [k \in 1 .. self.qcap |-> arg[2][1]]
        /\ DequeView(self) = Contents(self)
        /\ self.i = self.s
        /\ arg[1] >= 0 => self.qcap = arg[1]

\* C21 witness: a filled deque of two or more elements whose anchor is not
\* cell 0.
C21_Witness ==
    /\ op = "init" /\ Returned
    /\ arg[2] # None /\ self.qcap >= 2 /\ self.s > 0
    /\ Contents(self) = <<arg[2][1], arg[2][1]>>

\* C22: array(sequence, maxsize) yields a deque whose contents equal the
\* sequence in order, whose size is len(sequence), whose maxSize is
\* len(sequence) when maxsize is omitted or smaller and maxsize otherwise,
\* and whose window starts at the anchor.
C22_ArrayHoldsSequence ==
    (op = "array" /\ arg[3] \in Priorities) =>
        /\ Returned
        /\ Contents(self) = arg[1]
        /\ Size(self) = Len(arg[1])
        /\ self.qcap = IF arg[2] = None \/ arg[2][1] < Len(arg[1])
                       THEN Len(arg[1]) ELSE arg[2][1]
        /\ self.i = self.s
        /\ DequeView(self) = Contents(self)

\* C22 for a sequence of one element or more.
C22_ArrayHoldsSequenceNonEmpty ==
    (op = "array" /\ arg[1] # <<>>) => C22_ArrayHoldsSequence

\* C22 where it fails: array() of an empty list raised IndexError.
C22_EmptyListRaises ==
    /\ op = "array" /\ arg[1] = <<>> /\ arg[2] # None /\ arg[2][1] >= 1
    /\ self.err = "IndexError"

\* A partly filled array() deque whose window is off cell 0.
C22_PartlyFilled ==
    /\ op = "array" /\ Returned
    /\ Len(arg[1]) >= 1
    /\ self.qcap > Len(arg[1]) /\ self.s > 0

\* C23: whenever a put, putleft, putter or putterleft call triggers a buffer
\* shift, start is the anchor (_i = _s) when that call returns, in every
\* padding mode.
C23_ShiftEndsAtAnchor ==
    (op \in Insertions /\ Returned /\ self.shift # "none") => self.i = self.s

\* C23 witness: a putleft on a deque of maxsize >= 1 whose anchor is not
\* cell 0 shifted and returned.
C23_Witness ==
    /\ op = "putleft" /\ Returned
    /\ self.shift = "_shift_buffer"
    /\ self.qcap >= 1 /\ self.s > 0 /\ Size(pre) >= 1

\* Each of the four insertions shifted and returned.
C23_PutShifted == op = "put" /\ Returned /\ self.shift = "_shift_buffer" /\ self.s > 0
C23_PutterShifted ==
    op = "putter" /\ Returned /\ self.shift = "_shift_buffer" /\ self.s > 0
C23_PutterleftShifted ==
    op = "putterleft" /\ Returned /\ self.shift = "inline" /\ self.s > 0

\* The method `name` called with the argument `a` on the object ob.
Apply(name, a, ob) ==
    CASE name = "put" -> put(ob, a[1])
      [] name = "putleft" -> putleft(ob, a[1])
      [] name = "putter" -> putter(ob, a)
      [] name = "putterleft" -> putterleft(ob, a)
      [] name = "pop" -> pop(ob)
      [] name = "popleft" -> popleft(ob)
      [] name = "drop" -> drop(ob, a[1])
      [] name = "remove" -> remove(ob, a[1])
      [] name = "clear" -> clear(ob)
      [] OTHER -> ob

\* The deques with the maxsize and the contents of ob that array() lays out
\* at the anchor of every padding mode and buffer capacity of the model.
Layouts(ob) ==
    {ArrayOf(Contents(ob), <<ob.qcap>>, priority, force) :
        priority \in Priorities, force \in ob.qcap .. MaxBcap}

Observed == {"put", "putleft", "putter", "putterleft", "pop", "popleft", "drop", "remove"}

\* C24: physical layout is unobservable: a call on a reachable deque returns
\* the same value and leaves the same logical contents as the same call on
\* any deque with the same maxSize and contents but another start, buffer
\* capacity, padding mode or shift history (each of those deques is itself
\* reachable, so the two stay alike after every step of a sequence).
C24_LayoutUnobservable ==
    op \in Observed =>
        \A other \in Layouts(pre) : SameOutcome(self, Apply(op, arg, other))

\* C24 for maxsize >= 1 only.
C24_LayoutUnobservablePositive == (op \in Observed /\ pre.qcap >= 1) => C24_LayoutUnobservable

\* C24 where it fails: a put on a maxsize-0 deque returned, and the same put
\* on another layout of it raises.
C24_OtherLayoutRaises ==
    /\ op = "put" /\ Returned /\ pre.qcap = 0
    /\ \E other \in Layouts(pre) : Apply(op, arg, other).err # "none"

\* The abstract bounded deque: a plain sequence c of at most n elements;
\* append and prepend evict from the opposite end.
AbsPut(c, v, n) == LastN(Append(c, v), n)
AbsPutleft(c, v, n) == FirstN(<<v>> \o c, n)

RECURSIVE AbsPutter(_, _, _)
AbsPutter(c, values, n) ==
    IF values = <<>> THEN c ELSE AbsPutter(AbsPut(c, Head(values), n), Tail(values), n)

RECURSIVE AbsPutterleft(_, _, _)
AbsPutterleft(c, values, n) ==
    IF values = <<>> THEN c
    ELSE AbsPutterleft(AbsPutleft(c, Head(values), n), Tail(values), n)

\* The abstract sequence and the value returned after the call `name`.
Abstract(name, a, c, n) ==
    CASE name = "put" -> [c |-> AbsPut(c, a[1], n), ret |-> None]
      [] name = "putleft" -> [c |-> AbsPutleft(c, a[1], n), ret |-> None]
      [] name = "putter" -> [c |-> AbsPutter(c, a, n), ret |-> None]
      [] name = "putterleft" -> [c |-> AbsPutterleft(c, a, n), ret |-> None]
      [] name = "pop" ->
            IF c = <<>> THEN [c |-> c, ret |-> None]
            ELSE [c |-> SubSeq(c, 1, Len(c) - 1), ret |-> <<c[Len(c)]>>]
      [] name = "popleft" ->
            IF c = <<>> THEN [c |-> c, ret |-> None]
            ELSE [c |-> Tail(c), ret |-> <<c[1]>>]
      [] name = "drop" -> [c |-> RemoveAt(c, a[1] + 1), ret |-> <<c[a[1] + 1]>>]
      [] name = "remove" ->
            IF Occurrences(c, a[1]) = {} THEN [c |-> c, ret |-> None]
            ELSE [c |-> RemoveAt(c, CHOOSE p \in Occurrences(c, a[1]) :
                                        \A q \in Occurrences(c, a[1]) : p <= q),
                  ret |-> None]
      [] OTHER -> [c |-> <<>>, ret |-> None]

Refined == Observed \cup {"clear"}

\* C25: the logical contents refine the abstract bounded deque: after every
\* put, putleft, putter, putterleft, pop, popleft, drop (0 <= index < size),
\* remove and clear, buffer[start:end] is the abstract sequence after the
\* same call and the returned value is the same, across all shifts.
C25_RefinesAbstractDeque ==
    (op \in Refined /\ (op = "drop" => (0 <= arg[1] /\ arg[1] < Size(pre)))) =>
        LET abs == Abstract(op, arg, Contents(pre), pre.qcap)
        IN /\ Returned
           /\ Contents(self) = abs.c
           /\ self.ret = abs.ret
           /\ Len(abs.c) <= pre.qcap

\* C25 for maxsize >= 1 only.
C25_RefinesAbstractDequePositive ==
    (op \in Refined /\ pre.qcap >= 1) => C25_RefinesAbstractDeque

\* C25 where it fails: a put on a maxsize-0 deque raised; the abstract deque
\* stays empty.
C25_PutRaises ==
    /\ op = "put" /\ pre.qcap = 0
    /\ self.err # "none"
    /\ Abstract(op, arg, Contents(pre), pre.qcap).c = <<>>

\* C26: the fatal branch of the shift (a start below -1 when _shift_buffer
\* runs) is unreachable: no call on a constructed deque raises the shift's
\* RuntimeError.
C26_NoShiftRuntimeError == self.err # "RuntimeError"

\* C26 witness: _shift_buffer ran with start = -1, on a deque of maxsize 0
\* as well as on others (here: maxsize 0, where the call then raised
\* something else).
C26_Witness ==
    /\ op = "putleft" /\ self.shift = "_shift_buffer"
    /\ pre.qcap = 0 /\ pre.i = 0
    /\ self.err = "ValueError"

\* A call raised and left the start below -1, and the caller went on.
C26_WentOnBelow == op = "idle" /\ self.i < -1


\* ------------------------------------------------- the cells a call addresses
\* data[k]: the cell k as the code writes it, before numpy resolves it.
Cell(k) == [lo |-> k, hi |-> k + 1, len |-> 1]

\* data[a:b] on one side of an assignment whose other side has len cells.
Span(a, b, len) == [lo |-> a, hi |-> b, len |-> len]

\* data[s:j] = data[i:jj]
CopyCells(s, j, i, jj) == {Span(s, j, jj - i), Span(i, jj, j - s)}

\* The access addresses cells of the buffer only, by non-negative indexes,
\* and spans as many cells as its other side.
InBuffer(t, bcap) ==
    /\ 0 <= t.lo /\ t.lo <= t.hi /\ t.hi <= bcap
    /\ t.hi - t.lo = t.len

\* _shift_buffer: self._data[s:j] = self._data[i : self._j]
_shift_buffer_cells(ob) ==
    IF ob.i = -1 THEN CopyCells(ob.s + 1, ob.s + 1 + ob.j, 0, ob.j)
    ELSE IF ob.i >= 0 THEN CopyCells(ob.s, ob.s + ob.j - ob.i, ob.i, ob.j)
    ELSE {}

\* put: the shift, then self._data[self._j] = value
put_cells(ob0, value) ==
    LET a == IF ob0.j - ob0.i = ob0.qcap THEN [ob0 EXCEPT !.i = ob0.i + 1] ELSE ob0
        b == IF a.j = a.bcap THEN _shift_buffer(a) ELSE a
    IN (IF a.j = a.bcap THEN _shift_buffer_cells(a) ELSE {})
       \cup (IF b.err = "none" THEN {Cell(b.j)} ELSE {})

\* putleft: the shift, then self._data[self._i] = value
putleft_cells(ob0, value) ==
    LET a == IF ob0.j - ob0.i = ob0.qcap THEN [ob0 EXCEPT !.j = ob0.j - 1] ELSE ob0
        a1 == [a EXCEPT !.i = a.i - 1]
        b == IF a1.i = -1 THEN _shift_buffer(a1) ELSE a1
    IN (IF a1.i = -1 THEN _shift_buffer_cells(a1) ELSE {})
       \cup (IF b.err = "none" THEN {Cell(b.i)} ELSE {})

\* putter: self._data[self._i : self._j] = values[dim - self._qcap :], or the
\* shift and self._data[self._j : self._j + dim] = values
putter_cells(ob0, values) ==
    LET dim == Len(values)
        new_size == ob0.j - ob0.i + dim
        a == IF new_size > ob0.qcap THEN [ob0 EXCEPT !.i = ob0.i + (new_size - ob0.qcap)]
             ELSE ob0
        b == IF a.j + dim >= a.bcap THEN _shift_buffer(a) ELSE a
    IN IF dim >= ob0.qcap
       THEN {Span(ob0.s, ob0.s + ob0.qcap, Len(SubSeq(values, dim - ob0.qcap + 1, dim)))}
       ELSE (IF a.j + dim >= a.bcap THEN _shift_buffer_cells(a) ELSE {})
            \cup (IF b.err = "none" THEN {Span(b.j, b.j + dim, dim)} ELSE {})

\* putterleft: self._data[self._i : self._j] = values[::-1][: self._qcap], or
\* self._data[s:j] = self._data[self._i : self._j] and
\* self._data[self._i : self._i + dim] = values[::-1]
putterleft_cells(ob0, values) ==
    LET dim == Len(values)
        new_size == ob0.j - ob0.i + dim
        a == IF new_size > ob0.qcap THEN [ob0 EXCEPT !.j = ob0.j - (new_size - ob0.qcap)]
             ELSE ob0
        s == a.s + dim
        j == s + a.j - a.i
        i == IF a.i - dim < 0 THEN a.s ELSE a.i - dim
    IN IF dim >= ob0.qcap
       THEN {Span(ob0.s, ob0.s + ob0.qcap, Len(SubSeq(Reverse(values), 1, ob0.qcap)))}
       ELSE (IF a.i - dim < 0 THEN CopyCells(s, j, a.i, a.j) ELSE {})
            \cup {Span(i, i + dim, dim)}

\* pop: return self._data[self._j] after self._j -= 1
pop_cells(ob0) == IF ob0.i = ob0.j THEN {} ELSE {Cell(ob0.j - 1)}

\* popleft: return self._data[self._i - 1] after self._i += 1
popleft_cells(ob0) == IF ob0.i = ob0.j THEN {} ELSE {Cell(ob0.i)}

\* drop: value = self._data[index] and the copy that closes the gap
drop_cells(ob0, index0) ==
    LET index1 == IF index0 < 0 THEN ob0.qcap + index0 ELSE index0
        at == ob0.i + index1
        priority == IF ob0.priority \in {"ro", "lo", "eo"} THEN ob0.priority
                    ELSE IF (ob0.j - at) <= (at - ob0.i) THEN "ro"
                    ELSE "lo"
    IN IF at + 1 >= ob0.j THEN pop_cells(ob0)
       ELSE IF at <= ob0.i THEN popleft_cells(ob0)
       ELSE {Cell(at)} \cup
            (IF priority = "ro" THEN CopyCells(at, ob0.j - 1, at + 1, ob0.j)
             ELSE CopyCells(ob0.i + 1, at + 1, ob0.i, at))

\* The buffer accesses of the method `name` called with the argument `a` on ob.
Cells(name, a, ob) ==
    CASE name = "put" -> put_cells(ob, a[1])
      [] name = "putleft" -> putleft_cells(ob, a[1])
      [] name = "putter" -> putter_cells(ob, a)
      [] name = "putterleft" -> putterleft_cells(ob, a)
      [] name = "drop" -> drop_cells(ob, a[1])
      [] OTHER -> {}

Addressing == {"put", "putleft", "putter", "putterleft", "drop"}

\* C27: for maxsize >= 1, every buffer cell read or written by put, putleft,
\* putter, putterleft, drop and the shift lies in [0, bufferCapacity), every
\* range copy has a source and a destination of equal length inside the
\* buffer, and no negative index addresses the buffer, in every reachable
\* state, after clear() too.
C27_CellsInBuffer ==
    (op \in Addressing /\ pre.qcap >= 1) =>
        \A t \in Cells(op, arg, pre) : InBuffer(t, pre.bcap)

\* C27 witness: a putleft on a full deque of maxsize >= 1 whose start was at
\* cell 0 ran the shift, copied at least one cell and wrote the new value.
C27_Witness ==
    /\ op = "putleft" /\ pre.qcap >= 2 /\ Size(pre) = pre.qcap /\ pre.i = 0
    /\ self.shift = "_shift_buffer" /\ Returned
    /\ \E t \in Cells(op, arg, pre) : t.len >= 1 /\ t.lo > 0 /\ t.hi = self.j

\* A put on a deque that clear() emptied: the cursors are at cell 0, below
\* the anchor.
C27_PutAfterClear ==
    /\ op = "put" /\ pre.qcap >= 1 /\ pre.i = 0 /\ pre.j = 0 /\ pre.s > 0
    /\ Returned

\* A putter and a putterleft that shifted, and a drop that copied.
C27_PutterShifted ==
    op = "putter" /\ pre.qcap >= 1 /\ self.shift = "_shift_buffer" /\ Size(pre) >= 1

C27_PutterleftShifted ==
    op = "putterleft" /\ pre.qcap >= 1 /\ self.shift = "inline" /\ Size(pre) >= 1

C27_DropCopied ==
    op = "drop" /\ pre.qcap >= 1 /\ \E t \in Cells(op, arg, pre) : t.len >= 2

\* Outside the claim: on a maxsize-0 deque a put addresses a cell beyond the
\* buffer.
C27_BeyondForMaxsize0 ==
    /\ op = "put" /\ pre.qcap = 0
    /\ \E t \in Cells(op, arg, pre) : ~InBuffer(t, pre.bcap)


\* C28: a deque with maxsize 0 accepts any number of put and putleft calls:
\* each call completes without error and leaves the deque empty with
\* 0 <= start <= end <= bufferCapacity.
C28_Maxsize0Accepts ==
    (op \in {"put", "putleft"} /\ pre.qcap = 0) =>
        /\ Returned
        /\ Size(self) = 0
        /\ 0 <= self.i /\ self.i <= self.j /\ self.j <= self.bcap

\* C28 where it fails: a put on a maxsize-0 deque raised.
C28_PutRaised == op = "put" /\ pre.qcap = 0 /\ self.err # "none"

\* A putleft on a maxsize-0 deque raised.
C28_PutleftRaised == op = "putleft" /\ pre.qcap = 0 /\ self.err # "none"

\* A put on a maxsize-0 deque returned with the start beyond the buffer.
C28_StartBeyondBuffer ==
    op = "put" /\ pre.qcap = 0 /\ Returned /\ self.i > self.bcap

\* The constructor coerces a maxsize below 1 to 0.
C28_Coerced == (op = "init" /\ arg[1] < 1 /\ Returned) => self.qcap = 0


\* What a putleft keeps of the contents c of a deque of maxsize n: all of it,
\* or all but the rightmost when the deque is full.
KeptByPutleft(c, n) == IF Len(c) = n THEN SubSeq(c, 1, Len(c) - 1) ELSE c

\* C29: when putleft finds start == -1 (the start was at cell 0), the
\* left-exhausted shift places the window starting at anchorOffset + 1: the
\* entire existing content slides right by anchorOffset + 1 slots, in order,
\* the end follows it, and the new value is written at the anchor.
C29_LeftShiftPlacesWindow ==
    (op = "putleft" /\ pre.i = 0) =>
        LET kept == KeptByPutleft(Contents(pre), pre.qcap)
        IN /\ Returned
           /\ self.shift = "_shift_buffer"
           /\ self.j = self.s + 1 + Len(kept)
           /\ \A k \in 1 .. Len(kept) :
                  /\ pre.data[k] = kept[k]
                  /\ self.data[k + self.s + 1] = kept[k]
           /\ self.i = self.s
           /\ self.data[self.s + 1] = arg[1]

\* C29 for maxsize >= 1 only.
C29_LeftShiftPlacesWindowPositive ==
    pre.qcap >= 1 => C29_LeftShiftPlacesWindow

\* The left-exhausted shift moved two or more values by two or more slots
\* (deques of SpecDrop; in Spec one value is moved so).
C29_SlidRight ==
    /\ op = "putleft" /\ pre.i = 0 /\ Returned
    /\ pre.s >= 1
    /\ Len(KeptByPutleft(Contents(pre), pre.qcap)) >= 2

C29_SlidOneRight ==
    /\ op = "putleft" /\ pre.i = 0 /\ Returned
    /\ pre.s >= 1
    /\ Len(KeptByPutleft(Contents(pre), pre.qcap)) = 1

\* C29 where it fails: on a maxsize-0 deque the left-exhausted shift raised.
C29_LeftShiftRaised ==
    /\ op = "putleft" /\ pre.i = 0 /\ pre.qcap = 0
    /\ self.shift = "_shift_buffer" /\ self.err = "ValueError"

\* On a maxsize-0 deque the left-exhausted shift returned with the end at
\* the anchor, not beyond it.
C29_LeftShiftEndAtAnchor ==
    /\ op = "putleft" /\ pre.i = 0 /\ pre.qcap = 0
    /\ Returned /\ self.j = self.s


\* The outcomes of n consecutive put(v) calls on ob, and of n putleft(v) calls.
RECURSIVE PutRun(_, _, _)
PutRun(ob, v, n) ==
    IF n = 0 THEN <<>>
    ELSE LET r == put(Enter(ob), v) IN <<r>> \o PutRun(r, v, n - 1)

RECURSIVE PutleftRun(_, _, _)
PutleftRun(ob, v, n) ==
    IF n = 0 THEN <<>>
    ELSE LET r == putleft(Enter(ob), v) IN <<r>> \o PutleftRun(r, v, n - 1)

\* A full deque whose window sits at the anchor, after a call that returned.
FullAtAnchor(ob) ==
    /\ ob.err = "none"
    /\ ob.i = ob.s
    /\ ob.j - ob.i = ob.qcap

\* The first n calls of the run returned without a shift, and call n + 1
\* shifted and left a full window at the anchor.
SpacedBy(run, n) ==
    /\ \A k \in 1 .. n : run[k].err = "none" /\ run[k].shift = "none"
    /\ run[n + 1].err = "none"
    /\ run[n + 1].shift = "_shift_buffer"
    /\ FullAtAnchor(run[n + 1])

\* C30: shift spacing: from a full deque whose window sits at the anchor,
\* with pad = bufferCapacity - maxSize, the next pad - anchorOffset put calls
\* complete without a shift and the put after them shifts; the next
\* anchorOffset putleft calls complete without a shift and the putleft after
\* them shifts; each such shift returns the window to the anchor, so the
\* pattern repeats.
C30_ShiftSpacing ==
    (Built /\ FullAtAnchor(self)) =>
        \A v \in Values :
            LET pad == self.bcap - self.qcap
            IN /\ SpacedBy(PutRun(self, v, pad - self.s + 1), pad - self.s)
               /\ SpacedBy(PutleftRun(self, v, self.s + 1), self.s)

\* C30 for maxsize >= 1 only.
C30_ShiftSpacingPositive == self.qcap >= 1 => C30_ShiftSpacing

\* A put shifted and left a full window at the anchor of a deque of
\* maxsize >= 1 with room on both sides of the anchor: the pattern starts
\* again from a state a shift produced.
C30_ShiftedToAnchor ==
    /\ op = "put" /\ self.shift = "_shift_buffer"
    /\ FullAtAnchor(self) /\ self.qcap >= 1
    /\ self.s >= 1 /\ self.bcap - self.qcap - self.s >= 1

\* C30 where it fails: a full maxsize-0 deque at the anchor whose run of puts
\* ends in a call that raises.
C30_RunRaises ==
    /\ Built /\ FullAtAnchor(self) /\ self.qcap = 0
    /\ LET pad == self.bcap - self.qcap
       IN PutRun(self, 1, pad - self.s + 1)[pad - self.s + 1].err # "none"


C31_PutleftShifted ==
    /\ op = "putleft" /\ pre.priority = "ro" /\ pre.i = pre.s
    /\ pre.qcap >= 1 /\ pre.bcap - pre.qcap >= 2
    /\ self.shift = "_shift_buffer" /\ Returned

\* Where the claim fails: a putleft on a rightonly deque whose start is
\* above the anchor, and a put on a leftonly deque that is not full, return
\* without a shift.
C31_PutleftNoShift ==
    /\ op = "putleft" /\ pre.priority = "ro" /\ pre.i > pre.s
    /\ Returned /\ self.shift = "none"

C31_PutNoShift ==
    /\ op = "put" /\ pre.priority = "lo" /\ Size(pre) < pre.qcap
    /\ Returned /\ self.shift = "none"


\* The buffer index drop(index0) resolves to, and whether it is interior:
\* neither end of the window, so that drop does not go to pop or popleft.
BufIndex(ob, index0) == ob.i + (IF index0 < 0 THEN ob.qcap + index0 ELSE index0)

Interior(ob, index0) ==
    /\ BufIndex(ob, index0) + 1 < ob.j
    /\ BufIndex(ob, index0) > ob.i

Min(a, b) == IF a <= b THEN a ELSE b

\* The copy moved the right part [b + 1, end) down by one, decremented end
\* and wrote no other cell.
ClosedFromRight(before, after, b) ==
    /\ after.i = before.i /\ after.j = before.j - 1
    /\ \A k \in 0 .. before.bcap - 1 :
           after.data[k + 1] = IF k >= b /\ k < before.j - 1 THEN before.data[k + 2]
                               ELSE before.data[k + 1]

\* The copy moved the left part [start, b) up by one, incremented start and
\* wrote no other cell.
ClosedFromLeft(before, after, b) ==
    /\ after.i = before.i + 1 /\ after.j = before.j
    /\ \A k \in 0 .. before.bcap - 1 :
           after.data[k + 1] = IF k > before.i /\ k <= b THEN before.data[k]
                               ELSE before.data[k + 1]

\* C32: without a *only mode, drop of an interior index closes the gap from
\* the nearer side: it moves the right part down and decrements end when
\* end - bufIndex <= bufIndex - start, and otherwise moves the left part up
\* and increments start, so that the number of elements moved is the minimum
\* of bufIndex - start and end - bufIndex - 1.
C32_DropMovesNearerSide ==
    (op = "drop" /\ pre.priority \in {"e", "r", "l"} /\ Interior(pre, arg[1])) =>
        LET b == BufIndex(pre, arg[1])
            left == b - pre.i
            right == pre.j - b - 1
        IN /\ Returned
           /\ IF pre.j - b <= b - pre.i
              THEN ClosedFromRight(pre, self, b) /\ right = Min(left, right)
              ELSE ClosedFromLeft(pre, self, b) /\ left = Min(left, right)

\* C32 witness: with more values on the right of the index than on its left,
\* the one value on the left was moved up.
C32_Witness ==
    /\ op = "drop" /\ pre.priority \in {"e", "r", "l"} /\ Interior(pre, arg[1])
    /\ BufIndex(pre, arg[1]) - pre.i = 1
    /\ pre.j - BufIndex(pre, arg[1]) - 1 = 2
    /\ self.i = pre.i + 1 /\ Returned

\* With more values on the left, the one value on the right was moved down.
C32_MovedRightPart ==
    /\ op = "drop" /\ pre.priority \in {"e", "r", "l"} /\ Interior(pre, arg[1])
    /\ BufIndex(pre, arg[1]) - pre.i = 2
    /\ pre.j - BufIndex(pre, arg[1]) - 1 = 1
    /\ self.j = pre.j - 1 /\ Returned


\* C33: in a *only mode the drop direction is fixed: in rightonly mode (the
\* forced rightonly of pad < 2 included) drop of an interior index always
\* decrements end and leaves start unchanged; in leftonly mode it always
\* increments start and leaves end unchanged, whatever the index position.
C33_OnlyModesFixDirection ==
    (op = "drop" /\ Interior(pre, arg[1])) =>
        /\ pre.priority = "ro" =>
               Returned /\ ClosedFromRight(pre, self, BufIndex(pre, arg[1]))
        /\ pre.priority = "lo" =>
               Returned /\ ClosedFromLeft(pre, self, BufIndex(pre, arg[1]))

\* C33 witness: a rightonly drop of an index nearer to the start moved the
\* two values on its right.
C33_Witness ==
    /\ op = "drop" /\ pre.priority = "ro" /\ Interior(pre, arg[1])
    /\ BufIndex(pre, arg[1]) - pre.i = 1
    /\ pre.j - BufIndex(pre, arg[1]) - 1 = 2
    /\ self.j = pre.j - 1 /\ self.i = pre.i /\ Returned

\* A leftonly drop of an index nearer to the end moved the two values on its
\* left.
C33_LeftonlyMovedLeftPart ==
    /\ op = "drop" /\ pre.priority = "lo" /\ Interior(pre, arg[1])
    /\ BufIndex(pre, arg[1]) - pre.i = 2
    /\ pre.j - BufIndex(pre, arg[1]) - 1 = 1
    /\ self.i = pre.i + 1 /\ self.j = pre.j /\ Returned

\* The same on a deque that asked for another mode and was given rightonly
\* for its padding of less than 2 cells.
C33_ForcedRightonly ==
    /\ op = "drop" /\ pre.priority = "ro" /\ Interior(pre, arg[1])
    /\ pre.bcap - pre.qcap < 2
    /\ BufIndex(pre, arg[1]) - pre.i = 1
    /\ pre.j - BufIndex(pre, arg[1]) - 1 = 2
    /\ self.j = pre.j - 1 /\ Returned


\* C34: when pad = bufferCapacity - maxSize is below 2, construction forces
\* anchorOffset = 0 and the effective padding mode to rightonly regardless of
\* the requested mode, and the priority accessor reports rightonly.
C34_SmallPadForcesRightonly ==
    (op \in {"init", "array"} /\ Built /\ self.bcap - self.qcap < 2) =>
        /\ self.s = 0
        /\ self.priority = "ro"
        /\ _PRIORITY_FLAG(self.priority) = "rightonly"

\* C34 witness: leftonly was requested with one cell of padding, and the
\* deque is a rightonly one anchored at cell 0.
C34_Witness ==
    /\ op = "init" /\ arg[3] = "leftonly" /\ Built
    /\ self.bcap - self.qcap = 1 /\ self.qcap >= 1
    /\ self.s = 0 /\ _PRIORITY_FLAG(self.priority) = "rightonly"

\* With two cells of padding the same request is kept.
C34_KeptWithTwo ==
    /\ op = "init" /\ arg[3] = "leftonly" /\ Built
    /\ self.bcap - self.qcap = 2
    /\ self.s = 2 /\ _PRIORITY_FLAG(self.priority) = "leftonly"


\* The anchor of each mode as the specification gives it, for pad >= 2.
AnchorOf(mode, pad) ==
    CASE mode = "equal" -> pad \div 2
      [] mode = "right" ->
            IF (pad \div 2) \div 2 = 0 /\ pad > 2 THEN 1 ELSE (pad \div 2) \div 2
      [] mode = "rightonly" -> 0
      [] mode = "left" ->
            LET a == IF (3 * pad) \div 4 > pad THEN pad ELSE (3 * pad) \div 4
            IN IF a = pad /\ pad > 2 THEN pad - 1 ELSE a
      [] mode = "leftonly" -> pad

\* C35: for pad >= 2 the anchor is: equal -> pad div 2; right -> (pad div 2)
\* div 2, raised to 1 when that is 0 and pad > 2; rightonly -> 0; left ->
\* (3*pad) div 4, clamped to pad and lowered to pad - 1 when it equals pad and
\* pad > 2; leftonly -> pad.  For pad = 5 this gives 0, 1, 3, 5 for rightonly,
\* right, left, leftonly.
C35_AnchorOfEachMode ==
    (op = "placed" /\ arg[2] \in Priorities /\ self.bcap - self.qcap >= 2) =>
        LET pad == self.bcap - self.qcap
        IN /\ self.err = "none"
           /\ self.s = AnchorOf(arg[2], pad)
           /\ _PRIORITY_FLAG(self.priority) = arg[2]
           /\ pad = 5 => self.s = (CASE arg[2] = "rightonly" -> 0
                                     [] arg[2] = "right" -> 1
                                     [] arg[2] = "left" -> 3
                                     [] arg[2] = "leftonly" -> 5
                                     [] OTHER -> self.s)

\* C35 witness: mode right with a pad of 3, where (pad div 2) div 2 is 0 and
\* the anchor is raised to 1.
C35_Witness ==
    /\ op = "placed" /\ arg[2] = "right"
    /\ self.bcap - self.qcap = 3
    /\ self.s = 1

\* Mode left with a pad of 5 is anchored at 3, and with a pad of 2 at 1.
C35_LeftOfFive ==
    /\ op = "placed" /\ arg[2] = "left"
    /\ self.bcap - self.qcap = 5 /\ self.qcap = 4
    /\ self.s = 3

C35_LeftOfTwo ==
    /\ op = "placed" /\ arg[2] = "left"
    /\ self.bcap - self.qcap = 2
    /\ self.s = 1


\* C36: for every padding mode and every pad >= 0,
\* 0 <= anchorOffset <= bufferCapacity - maxSize, so a full window placed at
\* the anchor fits inside the buffer: anchorOffset + maxSize <= bufferCapacity.
C36_AnchorWithinPad ==
    (op = "placed" /\ self.err = "none") =>
        /\ 0 <= self.s
        /\ self.s <= self.bcap - self.qcap
        /\ self.s + self.qcap <= self.bcap

\* C36 witness: a leftonly deque of maxsize 4 in a forced buffer of 12 cells
\* is anchored at the last cell that lets a full window fit.
C36_Witness ==
    /\ op = "placed" /\ arg[2] = "leftonly" /\ self.err = "none"
    /\ self.qcap = 4 /\ self.bcap = 12
    /\ self.s = 8 /\ self.s + self.qcap = self.bcap

\* The same holds of every deque that the methods run on.
C36_AnchorWithinPadOfDeque ==
    Built => (0 <= self.s /\ self.s + self.qcap <= self.bcap)

\* C37: padding bias: for every pad >= 2, mode right leaves at least as much
\* slack on the right as on the left (anchorOffset <= pad - anchorOffset),
\* mode left leaves at least as much on the left as on the right
\* (anchorOffset >= pad - anchorOffset), and mode equal differs between the
\* two sides by at most 1.
C37_PaddingBias ==
    (op = "placed" /\ self.err = "none" /\ self.bcap - self.qcap >= 2) =>
        LET pad == self.bcap - self.qcap
            left == self.s
            right == pad - self.s
        IN /\ arg[2] = "right" => left <= right
           /\ arg[2] = "left" => left >= right
           /\ arg[2] = "equal" => (left - right <= 1 /\ right - left <= 1)

\* C37 witness: mode left with an odd pad of 5: 3 cells on the left, 2 on the
\* right.
C37_Witness ==
    /\ op = "placed" /\ arg[2] = "left" /\ self.err = "none"
    /\ self.bcap - self.qcap = 5
    /\ self.s = 3

\* Mode right and mode equal with an odd pad.
C37_RightOfFive ==
    /\ op = "placed" /\ arg[2] = "right" /\ self.bcap - self.qcap = 5 /\ self.s = 1

C37_EqualOfFive ==
    /\ op = "placed" /\ arg[2] = "equal" /\ self.bcap - self.qcap = 5 /\ self.s = 2


\* The requested buffer of a sizing: 2*maxsize without a hint, 2*p + maxsize
\* with the hint p.
Requested(size, buffer_padding) ==
    IF buffer_padding = None THEN 2 * size ELSE 2 * buffer_padding[1] + size

\* The sizing returned early: 32 (no hint, maxsize < 4) or 8 (hint, maxsize < 4
\* and requested < 8).
EarlyReturn(size, buffer_padding) ==
    IF buffer_padding = None THEN size < 4
    ELSE size < 4 /\ Requested(size, buffer_padding) < 8

\* C38: buffer slack is kept between the floor and the ceiling: with
\* requested = 2*maxSize (no hint, maxSize >= 4) or requested = 2*p + maxSize
\* (hint p >= 0, outside the early return of 8), the computed capacity
\* satisfies 8 <= capacity - requested <= 2048, and with no hint it is
\* strictly greater than 2*maxSize; with no hint and maxSize < 4 the capacity
\* is 32.
C38_SlackBetweenFloorAndCeiling ==
    op = "sized" =>
        LET requested == Requested(self.qcap, arg[2])
        IN /\ ~EarlyReturn(self.qcap, arg[2]) =>
                  /\ 8 <= self.bcap - requested
                  /\ self.bcap - requested <= 2048
           /\ (arg[2] = None /\ self.qcap >= 4) => self.bcap > 2 * self.qcap
           /\ (arg[2] = None /\ self.qcap < 4) => self.bcap = 32

\* C38 witness: the power of two at the request left less than 8 cells of
\* slack even when doubled, and the capacity was doubled twice.
C38_Witness ==
    /\ op = "sized" /\ arg[2] # None /\ ~EarlyReturn(self.qcap, arg[2])
    /\ self.bcap = 4 * _next_power_of_2(Requested(self.qcap, arg[2]))
    /\ self.bcap - Requested(self.qcap, arg[2]) >= 8

\* Without a hint the power of two was above the ceiling and the capacity was
\* cut back to at most 2048 cells of slack.
C38_CutBack ==
    /\ op = "sized" /\ arg[2] = None /\ self.qcap >= 4
    /\ _next_power_of_2(2 * self.qcap) - 2 * self.qcap > 2048
    /\ self.bcap < _next_power_of_2(2 * self.qcap)
    /\ self.bcap - 2 * self.qcap > 1920

\* Without a hint the request was a power of two: the capacity is strictly
\* above it, with exactly the floor of 8 cells (16 for a request of 8) or
\* the ceiling of 2048 cells (6144 for a request of 4096) of slack.
C38_DoubledAtPower ==
    /\ op = "sized" /\ arg[2] = None
    /\ \/ self.qcap = 4 /\ self.bcap = 16
       \/ self.qcap = 2048 /\ self.bcap = 6144


\* The configuration: anchorOffset, maxSize, bufferCapacity and paddingMode.
Config(ob) == <<ob.s, ob.qcap, ob.bcap, ob.priority>>

\* C39: no operation after construction changes the configuration:
\* anchorOffset, maxSize, bufferCapacity and paddingMode have the same values
\* after any sequence of put, putleft, putter, putterleft, pop, popleft, drop,
\* remove, clear, sort and reverse as they had when the deque was constructed.
C39_ConfigurationKept == [][Config(self') = Config(self)]_vars

\* C39 witness: clear() moved both cursors to cell 0, below the anchor, and
\* the anchor is where the constructor put it.
C39_Witness ==
    /\ op = "clear" /\ pre.s > 0 /\ Size(pre) > 0
    /\ self.i = 0 /\ self.j = 0
    /\ Config(self) = Config(pre)

\* A sort and a reverse changed the order of the contents and nothing of the
\* configuration; a full overwrite by putter moved the window to the anchor.
C39_Sorted ==
    /\ op = "sort" /\ Contents(self) # Contents(pre) /\ Config(self) = Config(pre)

C39_Reversed ==
    /\ op = "reverse" /\ Contents(self) # Contents(pre) /\ Config(self) = Config(pre)

C39_Overwrote ==
    /\ op = "putter" /\ Len(arg) >= pre.qcap /\ pre.i # pre.s
    /\ self.i = self.s /\ Config(self) = Config(pre)


\* The view self.deque spans the cells that self._data[self._i : self._j]
\* denotes now (an empty view denotes no cell, wherever it was taken).
InSync(ob) ==
    LET r == SliceRange(ob.i, ob.j, ob.bcap)
    IN /\ ob.deque.hi - ob.deque.lo = r.hi - r.lo
       /\ r.hi > r.lo => ob.deque = r

\* C40: the exposed deque view is always in sync with the cursors: after
\* every public operation that changes start or end (operations that shift,
\* drop delegating to pop or popleft, remove and clear included), the deque
\* attribute denotes exactly buffer[start:end].
C40_ViewInSync ==
    Built =>
        /\ InSync(self)
        /\ DequeView(self) = Contents(self)

\* C40 for deques of maxsize >= 1 only, with the cursors as the view's ends.
C40_ViewInSyncPositive ==
    (Built /\ self.qcap >= 1) =>
        /\ self.deque = [lo |-> self.i, hi |-> self.j]
        /\ DequeView(self) = Contents(self)

\* C40 witness: a drop that went to popleft moved the start, and the view
\* starts at the new start.
C40_Witness ==
    /\ op = "drop" /\ Size(pre) >= 2 /\ self.i = pre.i + 1 /\ arg[1] = 0
    /\ self.deque = [lo |-> self.i, hi |-> self.j]
    /\ self.deque # pre.deque

\* The same after a shift, a remove and a clear.
C40_AfterShift ==
    /\ op = "putleft" /\ self.shift = "_shift_buffer" /\ Returned /\ self.qcap >= 1
    /\ self.deque = [lo |-> self.i, hi |-> self.j] /\ self.deque # pre.deque

C40_AfterRemove ==
    /\ op = "remove" /\ Size(self) < Size(pre)
    /\ self.deque = [lo |-> self.i, hi |-> self.j] /\ self.deque # pre.deque

C40_AfterClear ==
    /\ op = "clear" /\ Size(pre) >= 1
    /\ self.deque = [lo |-> 0, hi |-> 0]

\* A call raised after it moved the cursors and before it took the view.
C40_RaisedBeforeView ==
    /\ Built /\ self.err # "none"
    /\ (self.i # pre.i \/ self.j # pre.j)

=============================================================================
